---------------------------- MODULE Spec2Model ----------------------------
(***************************************************************************)
(* A model of the text-to-structured-data pipeline of music-hook-theory:   *)
(* the field extractors and the aggregator of search_music_info.py, the    *)
(* harmonic tension scorer, the event flattener and the CSV appender of    *)
(* hook_theory_api.py, and the filter and the search loop of               *)
(* hook_theory_search_engine.py.                                           *)
(*                                                                         *)
(* Python strings are sequences of atoms.  An atom is a one-character      *)
(* string, or a run of letters that every pattern of the program matches   *)
(* only as a whole (such as "Minor" or "written in the key of").  Chord    *)
(* symbols and progressions, and the texts handed to the tempo, genre,     *)
(* measure and root extractors, are spelled character by character.        *)
(* The characters outside ASCII are written "<flat>" (U+266D), "<sharp>"   *)
(* (U+266F), "<endash>" (U+2013) and "<arrow>" (U+2192).                   *)
(* Tension values are kept in tenths (4.5 is 45).                          *)
(***************************************************************************)
EXTENDS Integers, Sequences, FiniteSets, TLC

VARIABLES
    tension_calls,   \* the last two calls of the tension scorer, newest first
    HAS_MUSIC21,     \* whether the import of music21 succeeded
    call,            \* the last flattener call and its input
    df_songs,        \* songs table returned by the last flattener call
    df_events,       \* events table returned by the last flattener call
    content,         \* text handed to the last aggregator call
    results,         \* record the aggregator returned
    extraction,      \* the last call of one field extractor and its result
    aggregated,      \* the calls of the aggregator of one run, oldest first
    filtered,        \* the last call of filter_dataframe and its result
    files,           \* the CSV files on disk, by path
    search           \* the progress of the running run_search

vars == <<tension_calls, HAS_MUSIC21, call, df_songs, df_events,
          content, results, extraction, aggregated, filtered, files, search>>

tensionVars == <<tension_calls>>
flattenVars == <<HAS_MUSIC21, call, df_songs, df_events>>
extractVars == <<content, results, extraction, aggregated>>
searchVars == <<filtered, files, search>>

\* A Python value that may be None is a sequence: <<>> is None and <<v>> is
\* the value v.
None == <<>>
Some(v) == <<v>>

\* bool(x) of a str that may be None.
Truthy(x) == x # None /\ x[1] # <<>>

\* d.get(k, default) of a dict d, a function from its keys.
Get(d, k, default) == IF k \in DOMAIN d THEN d[k] ELSE Some(default)

(***************************************************************************)
(* Bounds of the model.                                                    *)
(***************************************************************************)
\* Most markers ("7", "dim", "aug", "maj", "min") appended to a base symbol.
MaxMarkers == 2
\* Most entries of the raw data handed to process_data.
MaxEntries == 2
\* Most phrases of a text handed to extract_type.
MaxPhrases == 2
\* Most calls of the aggregator in one run of repeated calls.
MaxCalls == 3
\* Most URLs the sources of one search hand back, repetitions included.
MaxCandidates == 2
\* Most lines of the CSV files together before a call that appends to one.
MaxLines == 3

(***************************************************************************)
(* Python str operations on sequences of atoms.                            *)
(***************************************************************************)
Whitespace == {" ", "\n", "\t"}

Digits == {"0", "1", "2", "3", "4", "5", "6", "7", "8", "9"}

\* sub in s
Contains(s, sub) ==
    \E i \in 1..(Len(s) - Len(sub) + 1) : SubSeq(s, i, i + Len(sub) - 1) = sub

\* s.replace(old, new): left to right, non-overlapping; old is not empty.
RECURSIVE Replace(_, _, _)
Replace(s, old, new) ==
    IF Len(s) < Len(old) THEN s
    ELSE IF SubSeq(s, 1, Len(old)) = old
         THEN new \o Replace(SubSeq(s, Len(old) + 1, Len(s)), old, new)
         ELSE <<Head(s)>> \o Replace(Tail(s), old, new)

\* s.split(sep) for a one-atom separator: "".split(sep) is [""].
RECURSIVE Split(_, _)
Split(s, sep) ==
    IF \A i \in 1..Len(s) : s[i] # sep THEN <<s>>
    ELSE LET k == CHOOSE i \in 1..Len(s) :
                      s[i] = sep /\ \A j \in 1..(i - 1) : s[j] # sep
         IN  <<SubSeq(s, 1, k - 1)>> \o Split(SubSeq(s, k + 1, Len(s)), sep)

\* s.strip()
RECURSIVE Strip(_)
Strip(s) ==
    IF s = <<>> THEN s
    ELSE IF Head(s) \in Whitespace THEN Strip(Tail(s))
    ELSE IF s[Len(s)] \in Whitespace THEN Strip(SubSeq(s, 1, Len(s) - 1))
    ELSE s

\* int(s) of a run of decimal digits.
DigitValue(d) == CHOOSE n \in 0..9 : ToString(n) = d
RECURSIVE StrToInt(_)
StrToInt(s) ==
    IF s = <<>> THEN 0
    ELSE 10 * StrToInt(SubSeq(s, 1, Len(s) - 1)) + DigitValue(s[Len(s)])

\* s.isdigit()
IsDigit(s) == s # <<>> /\ \A i \in 1..Len(s) : s[i] \in Digits

(***************************************************************************)
(* Python's re on sequences of atoms: a backtracking matcher that yields   *)
(* the matches of a pattern at a position in the order re tries them.      *)
(***************************************************************************)
\* str.lower() of one atom.
UpperChars ==
    <<"A", "B", "C", "D", "E", "F", "G", "H", "I", "J", "K", "L", "M",
      "N", "O", "P", "Q", "R", "S", "T", "U", "V", "W", "X", "Y", "Z">>
LowerChars ==
    <<"a", "b", "c", "d", "e", "f", "g", "h", "i", "j", "k", "l", "m",
      "n", "o", "p", "q", "r", "s", "t", "u", "v", "w", "x", "y", "z">>
LowerMap ==
    [x \in {UpperChars[k] : k \in 1..Len(UpperChars)} |->
        LowerChars[CHOOSE k \in 1..Len(UpperChars) : UpperChars[k] = x]]
    @@ ("Minor" :> "minor") @@ ("Major" :> "major") @@ ("MINOR" :> "minor")
    @@ ("Dorian" :> "dorian") @@ ("Progression" :> "progression")
    @@ ("Chord" :> "chord") @@ ("Written in the key of" :> "written in the key of")
    @@ ("Pre" :> "pre") @@ ("Chorus" :> "chorus") @@ ("Verse" :> "verse")
    @@ ("Intro" :> "intro") @@ ("Outro" :> "outro") @@ ("Bridge" :> "bridge")
    @@ ("Hook" :> "hook") @@ ("Interlude" :> "interlude")
    @@ ("Song" :> "song") @@ ("Band" :> "band") @@ ("Unknown" :> "unknown")
    @@ ("Complexity" :> "complexity") @@ ("Melodic" :> "melodic")
    @@ ("Melody" :> "melody") @@ ("Tension" :> "tension")
    @@ ("Novelty" :> "novelty") @@ ("Bass" :> "bass")

LowerAtom(a) == IF a \in DOMAIN LowerMap THEN LowerMap[a] ELSE a

\* s.lower()
RECURSIVE Lower(_)
Lower(s) == IF s = <<>> THEN <<>> ELSE <<LowerAtom(Head(s))>> \o Lower(Tail(s))

\* Atoms that are not word characters (\w) for \b.
NonWordAtoms ==
    Whitespace \cup {",", "-", "<endash>", "<arrow>", ":", "#", "<flat>", "<sharp>", "/", "."}

\* Pattern constructors.
Lit(atoms) == [op |-> "lit", a |-> atoms]
OneOf(set) == [op |-> "set", a |-> set]
NoneOf(set) == [op |-> "nset", a |-> set]
AnyChar == [op |-> "dot"]
WordBoundary == [op |-> "wb"]
Cat(rs) == [op |-> "cat", a |-> rs]
Alt(rs) == [op |-> "alt", a |-> rs]
Opt(r) == [op |-> "opt", a |-> r]
Star(r) == [op |-> "star", a |-> r]
Plus(r) == [op |-> "cat", a |-> <<r, [op |-> "star", a |-> r]>>]
LazyPlus(r) == [op |-> "lazyplus", a |-> r]
Group(n, r) == [op |-> "grp", n |-> n, a |-> r]

\* The alternatives of a list of literal words, in order.
RECURSIVE Lits(_)
Lits(ws) == IF ws = <<>> THEN <<>> ELSE <<Lit(Head(ws))>> \o Lits(Tail(ws))
Words(ws) == Alt(Lits(ws))

\* Two atoms are equal for the matcher (ic: re.IGNORECASE).
AtomEq(x, y, ic) == IF ic THEN LowerAtom(x) = LowerAtom(y) ELSE x = y

\* Position i of s (between s[i-1] and s[i]) is a word boundary.
IsWordBoundary(s, i) ==
    LET before == i > 1 /\ s[i - 1] \notin NonWordAtoms
        after == i <= Len(s) /\ s[i] \notin NonWordAtoms
    IN  before # after

\* The matches of r in s starting at i, as [e: the position after the match,
\* c: the groups' spans], in the order of re's backtracking.
RECURSIVE Match(_, _, _, _, _)
RECURSIVE MatchAlt(_, _, _, _, _, _)
RECURSIVE MatchCat(_, _, _, _, _, _)
RECURSIVE MatchRest(_, _, _, _, _, _)
RECURSIVE MatchStar(_, _, _, _, _)
RECURSIVE MatchMore(_, _, _, _, _, _)
RECURSIVE MatchLazyPlus(_, _, _, _, _)
RECURSIVE MatchLazyMore(_, _, _, _, _, _)
RECURSIVE SetGroup(_, _, _, _)
Match(r, s, i, c, ic) ==
    CASE r.op = "lit" ->
            IF /\ i + Len(r.a) - 1 <= Len(s)
               /\ \A k \in 1..Len(r.a) : AtomEq(s[i + k - 1], r.a[k], ic)
            THEN <<[e |-> i + Len(r.a), c |-> c]>> ELSE <<>>
      [] r.op = "set" ->
            IF i <= Len(s) /\ \E y \in r.a : AtomEq(s[i], y, ic)
            THEN <<[e |-> i + 1, c |-> c]>> ELSE <<>>
      [] r.op = "nset" ->
            IF i <= Len(s) /\ ~\E y \in r.a : AtomEq(s[i], y, ic)
            THEN <<[e |-> i + 1, c |-> c]>> ELSE <<>>
      [] r.op = "dot" ->
            IF i <= Len(s) /\ s[i] # "\n"
            THEN <<[e |-> i + 1, c |-> c]>> ELSE <<>>
      [] r.op = "wb" ->
            IF IsWordBoundary(s, i) THEN <<[e |-> i, c |-> c]>> ELSE <<>>
      [] r.op = "cat" -> MatchCat(r.a, 1, s, i, c, ic)
      [] r.op = "alt" -> MatchAlt(r.a, 1, s, i, c, ic)
      [] r.op = "opt" -> Match(r.a, s, i, c, ic) \o <<[e |-> i, c |-> c]>>
      [] r.op = "star" -> MatchStar(r.a, s, i, c, ic)
      [] r.op = "lazyplus" -> MatchLazyPlus(r.a, s, i, c, ic)
      [] r.op = "grp" -> SetGroup(Match(r.a, s, i, c, ic), 1, r.n, i)

\* The matches ms from the j-th on, with group n set to the span from i.
SetGroup(ms, j, n, i) ==
    IF j > Len(ms) THEN <<>>
    ELSE <<[e |-> ms[j].e, c |-> [ms[j].c EXCEPT ![n] = <<i, ms[j].e>>]]>>
         \o SetGroup(ms, j + 1, n, i)

\* The alternatives rs from the k-th on, in order.
MatchAlt(rs, k, s, i, c, ic) ==
    IF k > Len(rs) THEN <<>>
    ELSE Match(rs[k], s, i, c, ic) \o MatchAlt(rs, k + 1, s, i, c, ic)

\* The concatenation of rs from the k-th on.
MatchCat(rs, k, s, i, c, ic) ==
    IF k > Len(rs) THEN <<[e |-> i, c |-> c]>>
    ELSE MatchRest(rs, k, s, Match(rs[k], s, i, c, ic), 1, ic)

\* rs after the k-th, continued from each match of the k-th (ms, from the j-th).
MatchRest(rs, k, s, ms, j, ic) ==
    IF j > Len(ms) THEN <<>>
    ELSE MatchCat(rs, k + 1, s, ms[j].e, ms[j].c, ic)
         \o MatchRest(rs, k, s, ms, j + 1, ic)

\* Greedy: one more repetition is tried before stopping.
MatchStar(r, s, i, c, ic) ==
    MatchMore(r, s, i, Match(r, s, i, c, ic), 1, ic) \o <<[e |-> i, c |-> c]>>

MatchMore(r, s, i, ms, j, ic) ==
    IF j > Len(ms) THEN <<>>
    ELSE (IF ms[j].e > i THEN MatchStar(r, s, ms[j].e, ms[j].c, ic) ELSE <<>>)
         \o MatchMore(r, s, i, ms, j + 1, ic)

\* Lazy: stopping is tried before one more repetition.
MatchLazyPlus(r, s, i, c, ic) ==
    MatchLazyMore(r, s, i, Match(r, s, i, c, ic), 1, ic)

MatchLazyMore(r, s, i, ms, j, ic) ==
    IF j > Len(ms) THEN <<>>
    ELSE <<ms[j]>>
         \o (IF ms[j].e > i THEN MatchLazyPlus(r, s, ms[j].e, ms[j].c, ic) ELSE <<>>)
         \o MatchLazyMore(r, s, i, ms, j + 1, ic)

NoGroups == <<None, None>>

\* re.search(r, s): the first match at the leftmost position that has one.
\* The result is None or the match [s: start, e: end, c: groups' spans].
RECURSIVE SearchFrom(_, _, _, _)
SearchFrom(r, s, i, ic) ==
    IF i > Len(s) + 1 THEN None
    ELSE LET ms == Match(r, s, i, NoGroups, ic)
         IN  IF ms # <<>> THEN Some([s |-> i, e |-> ms[1].e, c |-> ms[1].c])
             ELSE SearchFrom(r, s, i + 1, ic)

Search(r, s, ic) == SearchFrom(r, s, 1, ic)

\* re.findall(r, s): the matches that do not overlap, from left to right.
RECURSIVE FindAllFrom(_, _, _, _)
FindAllFrom(r, s, i, ic) ==
    LET m == SearchFrom(r, s, i, ic)
    IN  IF m = None THEN <<>>
        ELSE <<m[1]>>
             \o FindAllFrom(r, s, IF m[1].e > m[1].s THEN m[1].e ELSE m[1].e + 1, ic)

FindAll(r, s, ic) == FindAllFrom(r, s, 1, ic)

\* match.group(n) of a group that took part in the match.
GroupText(s, m, n) == SubSeq(s, m.c[n][1], m.c[n][2] - 1)

(***************************************************************************)
(* Field extractors.                                                       *)
(***************************************************************************)
\* \s
WS == OneOf(Whitespace)

\* Parts the patterns of the measure extractors share.
OptWS == Star(WS)
SomeWS == Plus(WS)
Number == Plus(OneOf(Digits))
\* [-<endash>to]+
RangeSign == Plus(OneOf({"-", "<endash>", "t", "o"}))
\* measures?
MeasureWord == Cat(<<Lit(<<"m", "e", "a", "s", "u", "r", "e">>), Opt(Lit(<<"s">>))>>)
\* m\.?
MeasureAbbr == Cat(<<Lit(<<"m">>), Opt(Lit(<<".">>))>>)
\* (?:at\s+)?(?:measure\s+)?
AtMeasure ==
    Cat(<<Opt(Cat(<<Lit(<<"a", "t">>), SomeWS>>)), Opt(Cat(<<Lit(<<"m", "e", "a", "s", "u", "r", "e">>), SomeWS>>))>>)

\* The patterns of extract_start_measure, in the order they are tried.
StartMeasurePatterns ==
    <<Cat(<<Lit(<<"S", "t", "a", "r", "t", " ", "M", "e", "a", "s", "u", "r", "e">>), OptWS,
            Opt(OneOf({":", "-"})), OptWS, Group(1, Number)>>),
      Cat(<<MeasureWord, SomeWS, Group(1, Number), OptWS, RangeSign, OptWS, Number>>),
      Cat(<<MeasureAbbr, OptWS, Group(1, Number), OptWS, RangeSign, OptWS, Number>>),
      Cat(<<Lit(<<"f", "r", "o", "m">>), SomeWS, Lit(<<"m", "e", "a", "s", "u", "r", "e">>), SomeWS, Group(1, Number)>>),
      Cat(<<Lit(<<"b", "e", "g", "i", "n">>), Opt(Lit(<<"s">>)), SomeWS, AtMeasure, Group(1, Number)>>)>>

\* The patterns of extract_end_measure, in the order they are tried.
EndMeasurePatterns ==
    <<Cat(<<Lit(<<"E", "n", "d", " ", "M", "e", "a", "s", "u", "r", "e">>), OptWS,
            Opt(OneOf({":", "-"})), OptWS, Group(1, Number)>>),
      Cat(<<MeasureWord, SomeWS, Number, OptWS, RangeSign, OptWS, Group(1, Number)>>),
      Cat(<<MeasureAbbr, OptWS, Number, OptWS, RangeSign, OptWS, Group(1, Number)>>),
      Cat(<<Lit(<<"t", "o">>), SomeWS, Lit(<<"m", "e", "a", "s", "u", "r", "e">>), SomeWS, Group(1, Number)>>),
      Cat(<<Lit(<<"e", "n", "d">>), Opt(Lit(<<"s">>)), SomeWS, AtMeasure, Group(1, Number)>>)>>

\* The capture of the pattern, from the k-th on, whose match starts leftmost
\* in the text.
RECURSIVE LeftmostFrom(_, _, _, _)
LeftmostFrom(patterns, k, text, best) ==
    IF k > Len(patterns) THEN best
    ELSE LET m == Search(patterns[k], text, TRUE)
         IN  LeftmostFrom(patterns, k + 1, text,
                          IF m # None /\ (best = None \/ m[1].s < best[1].s)
                          THEN m ELSE best)
LeftmostPatternMatch(patterns, k, text) ==
    LET m == LeftmostFrom(patterns, k, text, None)
    IN  IF m = None THEN None ELSE Some(StrToInt(GroupText(text, m[1], 1)))

\* for pattern in patterns: the capture of the first pattern, from the k-th
\* on, that matches anywhere in the text.
RECURSIVE FirstPatternMatch(_, _, _)
FirstPatternMatch(patterns, k, text) ==
    IF k > Len(patterns) THEN None
    ELSE LET m == Search(patterns[k], text, TRUE)
         IN  IF m # None THEN Some(StrToInt(GroupText(text, m[1], 1)))
             ELSE FirstPatternMatch(patterns, k + 1, text)

\* extract_start_measure(content) and extract_end_measure(content)
ExtractStartMeasure(text) == FirstPatternMatch(StartMeasurePatterns, 1, text)
ExtractEndMeasure(text) == FirstPatternMatch(EndMeasurePatterns, 1, text)

\* The pattern of extract_absolute_root.
AbsoluteRootPattern ==
    Cat(<<WordBoundary,
          Group(1, Cat(<<OneOf({"A", "B", "C", "D", "E", "F", "G"}),
                         Opt(OneOf({"b", "#", "<flat>", "<sharp>"}))>>)),
          Star(WS),
          Opt(Alt(<<Lit(<<"M", "a", "j", "o", "r">>), Lit(<<"M", "i", "n", "o", "r">>), Lit(<<"m", "a", "j">>),
                    Lit(<<"m", "i", "n">>), Lit(<<"m">>), Lit(<<"M">>)>>)),
          WordBoundary>>)

\* m.replace('<flat>', 'b').replace('<sharp>', '#')
NormalizeAccidentals(m) ==
    Replace(Replace(m, <<"<flat>">>, <<"b">>), <<"<sharp>">>, <<"#">>)

\* Whether x is an element of the sequence xs.
Seen(xs, x) == \E i \in 1..Len(xs) : xs[i] = x

\* A loop that remembers the roots as matched and not as normalized.
RECURSIVE UniqueRootsRawSeen(_, _, _, _)
UniqueRootsRawSeen(matches, k, seen, unique) ==
    IF k > Len(matches) THEN unique
    ELSE IF ~Seen(seen, matches[k])
         THEN UniqueRootsRawSeen(matches, k + 1, Append(seen, matches[k]),
                                 Append(unique, NormalizeAccidentals(matches[k])))
         ELSE UniqueRootsRawSeen(matches, k + 1, seen, unique)

\* The loop over the matches from the k-th on: seen and unique hold the
\* normalized roots met so far.
RECURSIVE UniqueRoots(_, _, _, _)
UniqueRoots(matches, k, seen, unique) ==
    IF k > Len(matches) THEN unique
    ELSE LET normalized == NormalizeAccidentals(matches[k])
         IN  IF ~Seen(seen, normalized)
             THEN UniqueRoots(matches, k + 1, Append(seen, normalized),
                              Append(unique, normalized))
             ELSE UniqueRoots(matches, k + 1, seen, unique)

\* The roots re.findall returns for the pattern: group 1 of every match.
RootMatches(text) ==
    LET ms == FindAll(AbsoluteRootPattern, text, FALSE)
    IN  [k \in 1..Len(ms) |-> GroupText(text, ms[k], 1)]

\* extract_absolute_root(content): None or the list of roots.
ExtractAbsoluteRoot(text) ==
    LET matches == RootMatches(text)
    IN  IF matches = <<>> THEN None
        ELSE Some(UniqueRoots(matches, 1, <<>>, <<>>))

\* The pattern of extract_bpm.
BpmPattern ==
    Cat(<<Alt(<<Lit(<<"b", "p", "m">>), Lit(<<"t", "e", "m", "p", "o">>)>>),
          Plus(OneOf({":"} \cup Whitespace)),
          Group(1, Plus(OneOf(Digits)))>>)

\* extract_bpm(content): None or the int.
ExtractBpm(text) ==
    LET m == Search(BpmPattern, text, TRUE)
    IN  IF m = None THEN None ELSE Some(StrToInt(GroupText(text, m[1], 1)))

\* [A-Za-z]
Letters ==
    {UpperChars[k] : k \in 1..Len(UpperChars)}
        \cup {LowerChars[k] : k \in 1..Len(LowerChars)}

\* The pattern of extract_genre.
GenrePattern ==
    Cat(<<Alt(<<Lit(<<"g", "e", "n", "r", "e">>), Lit(<<"s", "t", "y", "l", "e">>)>>),
          Plus(OneOf({":"} \cup Whitespace)),
          Group(1, Plus(OneOf(Letters \cup Whitespace \cup {"-"})))>>)

\* extract_genre(content): None or the stripped label.
ExtractGenre(text) ==
    LET m == Search(GenrePattern, text, TRUE)
    IN  IF m = None THEN None ELSE Some(Strip(GroupText(text, m[1], 1)))

\* The pattern of extract_key_and_mode (re.IGNORECASE).
KeyPattern ==
    Cat(<<Lit(<<"written in the key of">>), Plus(WS),
          Group(1, Cat(<<OneOf({"A", "B", "C", "D", "E", "F", "G"}),
                         Opt(OneOf({"<flat>", "<sharp>", "#", "b"}))>>)),
          Plus(WS),
          Group(2, Words(<<<<"Minor">>, <<"Major">>>>))>>)

\* A key pattern that makes the mode optional.
ExtractKeyAndModeOptionalMode(text) ==
    LET m == Search(Cat(<<Lit(<<"written in the key of">>), Plus(WS),
                          Group(1, Cat(<<OneOf({"A", "B", "C", "D", "E", "F", "G"}),
                                         Opt(OneOf({"<flat>", "<sharp>", "#", "b"}))>>)),
                          Opt(Cat(<<Plus(WS),
                                    Group(2, Words(<<<<"Minor">>, <<"Major">>>>))>>))>>),
                    text, TRUE)
    IN  IF m = None THEN <<None, None>>
        ELSE <<Some(GroupText(text, m[1], 1)),
               IF m[1].c[2] = None THEN None ELSE Some(GroupText(text, m[1], 2))>>

\* extract_key_and_mode(content): the pair (key, mode).
ExtractKeyAndMode(text) ==
    LET m == Search(KeyPattern, text, TRUE)
    IN  IF m = None THEN <<None, None>>
        ELSE <<Some(GroupText(text, m[1], 1)), Some(GroupText(text, m[1], 2))>>

\* The pattern of extract_title_artist.
TitleArtistPattern ==
    Cat(<<Group(1, LazyPlus(AnyChar)), Plus(WS), Lit(<<"by">>), Plus(WS),
          Group(2, LazyPlus(AnyChar)), Plus(WS), Lit(<<"Chord", "s">>)>>)

\* extract_title_artist(content): the pair (title, artist).
ExtractTitleArtist(text) ==
    LET m == Search(TitleArtistPattern, text, FALSE)
    IN  IF m = None THEN <<None, None>>
        ELSE <<Some(Strip(GroupText(text, m[1], 1))),
               Some(Strip(GroupText(text, m[1], 2)))>>

\* A section type that tests "chorus" before "pre-chorus".
ExtractTypeChorusFirst(text) ==
    LET content_lower == Lower(text)
    IN  IF Contains(content_lower, <<"chorus">>) THEN <<"Chorus">>
        ELSE IF \/ Contains(content_lower, <<"pre", "-", "chorus">>)
                \/ Contains(content_lower, <<"pre", "chorus">>)
             THEN <<"Pre", "-", "Chorus">>
        ELSE IF Contains(content_lower, <<"verse">>) THEN <<"Verse">>
        ELSE IF Contains(content_lower, <<"intro">>) THEN <<"Intro">>
        ELSE IF Contains(content_lower, <<"outro">>) THEN <<"Outro">>
        ELSE IF Contains(content_lower, <<"bridge">>) THEN <<"Bridge">>
        ELSE IF Contains(content_lower, <<"hook">>) THEN <<"Hook">>
        ELSE IF Contains(content_lower, <<"interlude">>) THEN <<"Interlude">>
        ELSE <<"Unknown">>

\* extract_type(content)
ExtractType(text) ==
    LET content_lower == Lower(text)
    IN  IF \/ Contains(content_lower, <<"pre", "-", "chorus">>)
           \/ Contains(content_lower, <<"pre", "chorus">>) THEN <<"Pre", "-", "Chorus">>
        ELSE IF Contains(content_lower, <<"chorus">>) THEN <<"Chorus">>
        ELSE IF Contains(content_lower, <<"verse">>) THEN <<"Verse">>
        ELSE IF Contains(content_lower, <<"intro">>) THEN <<"Intro">>
        ELSE IF Contains(content_lower, <<"outro">>) THEN <<"Outro">>
        ELSE IF Contains(content_lower, <<"bridge">>) THEN <<"Bridge">>
        ELSE IF Contains(content_lower, <<"hook">>) THEN <<"Hook">>
        ELSE IF Contains(content_lower, <<"interlude">>) THEN <<"Interlude">>
        ELSE <<"Unknown">>

\* The roman-numeral core of a chord token.
NumeralPattern ==
    Words(<<<<"I", "I", "I">>, <<"I", "I">>, <<"I", "V">>, <<"V", "I", "I">>,
            <<"V", "I">>, <<"V">>, <<"I">>,
            <<"i", "i", "i">>, <<"i", "i">>, <<"i", "v">>, <<"v", "i", "i">>,
            <<"v", "i">>, <<"v">>, <<"i">>>>)

\* One chord token: accidental, numeral, quality, digits, inversion.
ChordTokenPattern ==
    Cat(<<Opt(OneOf({"b", "#", "<flat>", "<sharp>"})),
          NumeralPattern,
          Opt(Words(<<<<"M">>, <<"m">>, <<"d", "i", "m">>, <<"a", "u", "g">>,
                      <<"a", "d", "d">>, <<"s", "u", "s">>, <<"m", "a", "j">>,
                      <<"m", "i", "n">>>>)),
          Star(OneOf(Digits)),
          Opt(Cat(<<Lit(<<"/">>),
                    OneOf({"1", "2", "3", "4", "5", "6", "7",
                           "A", "B", "C", "D", "E", "F", "G",
                           "#", "<flat>", "<sharp>", "b"})>>))>>)

\* The separators between the tokens of a labeled progression.
Separators == Whitespace \cup {",", "-", "<endash>", "<arrow>"}

\* Pattern 1 of extract_chord_progression (re.IGNORECASE).
LabeledPattern ==
    Cat(<<Alt(<<Lit(<<"Progression">>), Cat(<<Lit(<<"Chord">>), Opt(Lit(<<"s">>))>>)>>),
          Star(WS), Opt(OneOf({":", "-"})), Star(WS),
          Group(1, Cat(<<Plus(Cat(<<ChordTokenPattern, Plus(OneOf(Separators))>>)),
                         ChordTokenPattern>>))>>)

\* Pattern 2 of extract_chord_progression.
StandalonePattern ==
    Cat(<<WordBoundary,
          Group(1, Cat(<<Cat(<<ChordTokenPattern, Plus(WS)>>),
                         Cat(<<ChordTokenPattern, Plus(WS)>>),
                         Star(Cat(<<ChordTokenPattern, Plus(WS)>>)),
                         ChordTokenPattern>>)),
          WordBoundary>>)

\* re.sub(r'[\s,\-<endash><arrow>]+', ' ', s)
RECURSIVE NormalizeSeparators(_)
NormalizeSeparators(s) ==
    IF s = <<>> THEN <<>>
    ELSE IF Head(s) \in Separators
         THEN IF Len(s) > 1 /\ s[2] \in Separators
              THEN NormalizeSeparators(Tail(s))
              ELSE <<" ">> \o NormalizeSeparators(Tail(s))
         ELSE <<Head(s)>> \o NormalizeSeparators(Tail(s))

\* extract_chord_progression(content)
ExtractChordProgression(text) ==
    LET labeled == Search(LabeledPattern, text, TRUE)
    IN  IF labeled # None
        THEN Some(Strip(NormalizeSeparators(GroupText(text, labeled[1], 1))))
        ELSE LET standalone == Search(StandalonePattern, text, FALSE)
             IN  IF standalone # None
                 THEN Some(Strip(GroupText(text, standalone[1], 1)))
                 ELSE None

\* The pattern of the five score extractors: the label, \s*(\d+).
ScorePattern(label) ==
    Cat(<<Lit(label), Star(WS), Group(1, Plus(OneOf(Digits)))>>)

\* int(match.group(1)) if match else None, for a score label.
ExtractScore(label, text) ==
    LET m == Search(ScorePattern(label), text, FALSE)
    IN  IF m = None THEN None ELSE Some(StrToInt(GroupText(text, m[1], 1)))

ExtractChordComplexity(text) ==
    ExtractScore(<<"Chord", " ", "Complexity">>, text)
ExtractMelodicComplexity(text) ==
    ExtractScore(<<"Melodic", " ", "Complexity">>, text)
ExtractChordMelodyTension(text) ==
    ExtractScore(<<"Chord", "-", "Melody", " ", "Tension">>, text)
ExtractChordProgressionNovelty(text) ==
    ExtractScore(<<"Chord", " ", "Progression", " ", "Novelty">>, text)
ExtractChordBassMelody(text) ==
    ExtractScore(<<"Chord", " ", "Bass", " ", "Melody">>, text)

\* The pattern of extract_trend_probability (re.IGNORECASE).
TrendPattern ==
    Cat(<<Lit(<<"t", "r", "e", "n", "d">>), Opt(OneOf({"_"} \cup Whitespace)),
          Lit(<<"p", "r", "o", "b", "a", "b", "i", "l", "i", "t", "y">>),
          Plus(OneOf({":"} \cup Whitespace)),
          Group(1, Cat(<<Plus(OneOf(Digits)),
                         Opt(Cat(<<Lit(<<".">>), Plus(OneOf(Digits))>>))>>))>>)

\* s without the zeros at its end.
RECURSIVE StripZeros(_)
StripZeros(s) ==
    IF s # <<>> /\ s[Len(s)] = "0" THEN StripZeros(SubSeq(s, 1, Len(s) - 1))
    ELSE s

\* float(s) of digits with an optional fraction: the decimal
\* mantissa / 10^places, without zeros at the end of the fraction.
StrToFloat(s) ==
    LET parts == Split(s, ".")
        fraction == IF Len(parts) = 2 THEN StripZeros(parts[2]) ELSE <<>>
    IN  [mantissa |-> StrToInt(parts[1] \o fraction), places |-> Len(fraction)]

\* extract_trend_probability(content): None or the float.
ExtractTrendProbability(text) ==
    LET m == Search(TrendPattern, text, TRUE)
    IN  IF m = None THEN None ELSE Some(StrToFloat(GroupText(text, m[1], 1)))

\* A numeral with its accidental, quality and digits, as the patterns of
\* extract_roman_numeral and extract_inversion begin.
FigurePattern ==
    Cat(<<Opt(OneOf({"b", "#", "<flat>", "<sharp>"})), NumeralPattern>>)

\* The pattern of extract_roman_numeral.
RomanNumeralPattern ==
    Cat(<<WordBoundary,
          Group(1, Cat(<<FigurePattern,
                         Opt(Words(<<<<"M">>, <<"m">>, <<"d", "i", "m">>,
                                     <<"a", "u", "g">>, <<"a", "d", "d">>,
                                     <<"s", "u", "s">>, <<"m", "a", "j">>,
                                     <<"m", "i", "n">>>>)),
                         Star(OneOf(Digits))>>)),
          Opt(Cat(<<Lit(<<"/">>),
                    Plus(OneOf(Digits
                               \cup {"A", "B", "C", "D", "E", "F", "G",
                                     "a", "b", "c", "d", "e", "f", "g",
                                     "#", "<flat>", "<sharp>"}))>>)),
          WordBoundary>>)

\* The loop over the matches from the k-th on that keeps the first
\* appearance of each.
RECURSIVE Unique(_, _, _)
Unique(matches, k, unique) ==
    IF k > Len(matches) THEN unique
    ELSE Unique(matches, k + 1,
                IF Seen(unique, matches[k]) THEN unique
                ELSE Append(unique, matches[k]))

\* extract_roman_numeral(content): None or the list of figures.
ExtractRomanNumeral(text) ==
    LET ms == FindAll(RomanNumeralPattern, text, FALSE)
        matches == [k \in 1..Len(ms) |-> GroupText(text, ms[k], 1)]
    IN  IF matches = <<>> THEN None ELSE Some(Unique(matches, 1, <<>>))

\* The pattern of extract_inversion.
InversionPattern ==
    Cat(<<WordBoundary,
          Group(1, Cat(<<FigurePattern, Star(NoneOf({"/"}))>>)),
          Lit(<<"/">>),
          Group(2, Alt(<<OneOf({"1", "2", "3", "4", "5", "6", "7"}),
                         Cat(<<OneOf({"A", "B", "C", "D", "E", "F", "G"}),
                               Opt(OneOf({"b", "#", "<flat>", "<sharp>"}))>>)>>)),
          WordBoundary>>)

\* extract_inversion(content): None or the list of chord and bass.
ExtractInversion(text) ==
    LET ms == FindAll(InversionPattern, text, FALSE)
    IN  IF ms = <<>> THEN None
        ELSE Some([k \in 1..Len(ms) |->
                      [chord |-> GroupText(text, ms[k], 1),
                       bass |-> GroupText(text, ms[k], 2)]])

(***************************************************************************)
(* Metadata aggregator.  Every value of the record is None or             *)
(* Some(value).                                                            *)
(***************************************************************************)
\* The keys of the dict literal of extract_music_info_from_text.
ResultKeys ==
    {"bpm", "key_tonic", "mode", "genre", "chord_complexity",
     "melodic_complexity", "trend_probability", "chord_melody_tension",
     "chord_progression_novelty", "chord_bass_melody", "type",
     "start_measure", "end_measure", "roman_numeral", "absolute_root",
     "inversion", "chord_progression"}

\* An aggregator that stores the title without the artist.
TitleKeysTitleOnly(titled) == IF titled THEN {"song_title"} ELSE {}

\* The keys added under `if title:`.
TitleKeys(titled) == IF titled THEN {"song_title", "artist"} ELSE {}

\* extract_music_info_from_text(content)
ExtractMusicInfoFromText(text) ==
    LET key == ExtractKeyAndMode(text)[1]
        mode == ExtractKeyAndMode(text)[2]
        title == ExtractTitleArtist(text)[1]
        artist == ExtractTitleArtist(text)[2]
        keyed == Truthy(key)
        titled == Truthy(title)
    IN  [k \in ResultKeys \cup TitleKeys(titled) |->
            CASE k = "bpm" -> ExtractBpm(text)
              [] k = "key_tonic" -> IF keyed THEN key ELSE None
              [] k = "mode" -> IF keyed THEN mode ELSE None
              [] k = "genre" -> ExtractGenre(text)
              [] k = "chord_complexity" -> ExtractChordComplexity(text)
              [] k = "melodic_complexity" -> ExtractMelodicComplexity(text)
              [] k = "trend_probability" -> ExtractTrendProbability(text)
              [] k = "chord_melody_tension" -> ExtractChordMelodyTension(text)
              [] k = "chord_progression_novelty" ->
                     ExtractChordProgressionNovelty(text)
              [] k = "chord_bass_melody" -> ExtractChordBassMelody(text)
              [] k = "type" -> Some(ExtractType(text))
              [] k = "start_measure" -> ExtractStartMeasure(text)
              [] k = "end_measure" -> ExtractEndMeasure(text)
              [] k = "roman_numeral" -> ExtractRomanNumeral(text)
              [] k = "absolute_root" -> ExtractAbsoluteRoot(text)
              [] k = "inversion" -> ExtractInversion(text)
              [] k = "chord_progression" -> ExtractChordProgression(text)
              [] k = "song_title" -> title
              [] k = "artist" -> artist]

(***************************************************************************)
(* Harmonic tension scorer.                                                *)
(***************************************************************************)
\* A table whose sixth degree has its two cases exchanged.
tension_map_vi_swapped ==
    (<<"1">> :> 0)  @@ (<<"I">> :> 0)            @@ (<<"i">> :> 5) @@
    (<<"5">> :> 10) @@ (<<"V">> :> 10)           @@ (<<"v">> :> 15) @@
    (<<"4">> :> 10) @@ (<<"I", "V">> :> 10)      @@ (<<"i", "v">> :> 15) @@
    (<<"6">> :> 20) @@ (<<"v", "i">> :> 25)      @@ (<<"V", "I">> :> 20) @@
    (<<"3">> :> 30) @@ (<<"i", "i", "i">> :> 30) @@ (<<"I", "I", "I">> :> 35) @@
    (<<"2">> :> 25) @@ (<<"i", "i">> :> 25)      @@ (<<"I", "I">> :> 30) @@
    (<<"7">> :> 45) @@ (<<"v", "i", "i">> :> 45) @@ (<<"V", "I", "I">> :> 40)

\* The lookup table, in tenths.
tension_map ==
    (<<"1">> :> 0)  @@ (<<"I">> :> 0)            @@ (<<"i">> :> 5) @@
    (<<"5">> :> 10) @@ (<<"V">> :> 10)           @@ (<<"v">> :> 15) @@
    (<<"4">> :> 10) @@ (<<"I", "V">> :> 10)      @@ (<<"i", "v">> :> 15) @@
    (<<"6">> :> 20) @@ (<<"v", "i">> :> 20)      @@ (<<"V", "I">> :> 25) @@
    (<<"3">> :> 30) @@ (<<"i", "i", "i">> :> 30) @@ (<<"I", "I", "I">> :> 35) @@
    (<<"2">> :> 25) @@ (<<"i", "i">> :> 25)      @@ (<<"I", "I">> :> 30) @@
    (<<"7">> :> 45) @@ (<<"v", "i", "i">> :> 45) @@ (<<"V", "I", "I">> :> 40)

\* The symbol "normalized" for the lookup.
ChordClean(sym) ==
    Replace(Replace(Replace(sym, <<"7">>, <<>>), <<"m", "a", "j">>, <<>>),
            <<"m", "i", "n">>, <<>>)

\* tension_map.get(chord_clean, 2.0)
BaseTension(clean) ==
    IF clean \in DOMAIN tension_map THEN tension_map[clean] ELSE 20

\* A scorer whose modifiers exclude one another (elif instead of if).
CalculateSpiralArrayTensionExclusive(sym, key_tonic, mode) ==
    BaseTension(ChordClean(sym))
        + (IF Contains(sym, <<"7">>) THEN 5
           ELSE IF Contains(sym, <<"d", "i", "m">>) THEN 15
           ELSE IF Contains(sym, <<"a", "u", "g">>) THEN 15 ELSE 0)

\* A scorer that reads the mode: a song in a minor mode scores half a unit
\* more.
CalculateSpiralArrayTensionByMode(sym, key_tonic, mode) ==
    BaseTension(ChordClean(sym))
        + (IF Contains(sym, <<"7">>) THEN 5 ELSE 0)
        + (IF Contains(sym, <<"d", "i", "m">>) THEN 15 ELSE 0)
        + (IF Contains(sym, <<"a", "u", "g">>) THEN 15 ELSE 0)
        + (IF mode = Some(<<"Minor">>) THEN 5 ELSE 0)

\* calculate_spiral_array_tension(chord_symbol, key_tonic, mode)
CalculateSpiralArrayTension(sym, key_tonic, mode) ==
    BaseTension(ChordClean(sym))
        + (IF Contains(sym, <<"7">>) THEN 5 ELSE 0)
        + (IF Contains(sym, <<"d", "i", "m">>) THEN 15 ELSE 0)
        + (IF Contains(sym, <<"a", "u", "g">>) THEN 15 ELSE 0)

(***************************************************************************)
(* The pages of the site, by URL: None when the request fails or does not  *)
(* answer 200, otherwise the visible text of the page.                     *)
(***************************************************************************)
KeyOfAMinor == <<"written in the key of", " ", "A", " ", "Minor", "\n">>
KeyOfCMajor == <<"written in the key of", " ", "C", " ", "Major", "\n">>
KeyOfBFlatMajor ==
    <<"written in the key of", " ", "B", "<flat>", " ", "Major", "\n">>
SongByBand == <<"Song", " ", "by", " ", "Band", " ", "Chord", "s", "\n">>

Web ==
    ("/a" :> Some(SongByBand \o KeyOfAMinor \o <<"Chorus", "\n">>
                  \o <<"Progression", ":", " ", "I", " ", "V", " ", "v", "i",
                       " ", "I", "V">>))
    @@ ("/c" :> Some(KeyOfCMajor \o <<"Verse", "\n">>
                     \o <<"Chord", "s", ":", " ", "I", ",", " ", "I", "V", ",",
                          " ", "V">>))
    @@ ("/nokey" :> Some(SongByBand \o <<"i", "i", " ", "V", "7", " ", "I">>))
    @@ ("/flat" :> Some(KeyOfBFlatMajor \o <<"Progression", " ", "I", " ",
                                              "-", " ", "V">>))
    @@ ("/plain" :> Some(SongByBand \o KeyOfCMajor))
    @@ ("/sharp" :> Some(<<"written in the key of", " ", "C", "#", " ",
                           "Minor", "\n", "Chord", " ", "Complexity", " ",
                           "7", "0">>))
    @@ ("/down" :> None)

\* The initial record of fetch_song_metadata_from_page.
MetadataDefaults ==
    [k \in {"bpm", "key_tonic", "mode", "genre", "chord_complexity",
            "melodic_complexity", "chord_melody_tension",
            "chord_progression_novelty", "chord_bass_melody", "type",
            "roman_numeral", "absolute_root", "inversion",
            "chord_progression"} |-> None]

\* d.update(e)
Update(d, e) ==
    [k \in DOMAIN d \cup DOMAIN e |-> IF k \in DOMAIN e THEN e[k] ELSE d[k]]

\* fetch_song_metadata_from_page(song_url)
FetchSongMetadataFromPage(song_url) ==
    IF song_url = "" THEN MetadataDefaults
    ELSE IF Web[song_url] = None THEN MetadataDefaults
    ELSE Update(MetadataDefaults, ExtractMusicInfoFromText(Web[song_url][1]))

(***************************************************************************)
(* Root resolution through music21.  An outcome tells whether the library  *)
(* was called, whether the call raised, and the pitch class it returned.   *)
(***************************************************************************)
NotCalled == [called |-> FALSE, raised |-> FALSE, pc |-> 0]
Raised == [called |-> TRUE, raised |-> TRUE, pc |-> 0]
Returned(pc) == [called |-> TRUE, raised |-> FALSE, pc |-> pc]

\* The semitones of the degrees of the major scale above the tonic.
DegreeOffset ==
    (<<"i">> :> 0) @@ (<<"i", "i">> :> 2) @@ (<<"i", "i", "i">> :> 4)
    @@ (<<"i", "v">> :> 5) @@ (<<"v">> :> 7) @@ (<<"v", "i">> :> 9)
    @@ (<<"v", "i", "i">> :> 11)

\* The pitch classes of the natural notes.
LetterPitchClass ==
    ("C" :> 0) @@ ("D" :> 2) @@ ("E" :> 4) @@ ("F" :> 5) @@ ("G" :> 7)
    @@ ("A" :> 9) @@ ("B" :> 11)

\* A key the library reads as a major key: an upper-case letter with an
\* optional ASCII accidental.
PlainMajorKey(key) ==
    /\ Len(key) \in {1, 2}
    /\ key[1] \in DOMAIN LetterPitchClass
    /\ Len(key) = 2 => key[2] \in {"#", "b"}

TonicPitchClass(key) ==
    (LetterPitchClass[key[1]]
        + (IF Len(key) = 1 THEN 0 ELSE IF key[2] = "#" THEN 1 ELSE 11)) % 12

\* The outcomes of music21.roman.RomanNumeral(rn_str, key).root().pitchClass.
\* A bare numeral in a major key has one root; for every other figure or key
\* the call either raises or returns some pitch class.
Music21Outcomes(rn_str, key) ==
    IF Lower(rn_str) \in DOMAIN DegreeOffset /\ PlainMajorKey(key)
    THEN {Returned((TonicPitchClass(key) + DegreeOffset[Lower(rn_str)]) % 12)}
    ELSE {Raised} \cup {Returned(pc) : pc \in 0..11}

rn_map ==
    (<<"1">> :> <<"I">>) @@ (<<"2">> :> <<"i", "i">>)
    @@ (<<"3">> :> <<"i", "i", "i">>) @@ (<<"4">> :> <<"I", "V">>)
    @@ (<<"5">> :> <<"V">>) @@ (<<"6">> :> <<"v", "i">>)
    @@ (<<"7">> :> <<"v", "i", "i">>)

\* The figure handed to the library for a token.
RnStr(numeral) ==
    IF IsDigit(numeral)
    THEN IF numeral \in DOMAIN rn_map THEN rn_map[numeral] ELSE <<"I">>
    ELSE numeral

\* The outcomes of the guarded resolution of one token.
ResolutionOutcomes(has_music21, numeral, current_key) ==
    IF has_music21 /\ Truthy(current_key)
    THEN Music21Outcomes(RnStr(numeral), current_key[1])
    ELSE {NotCalled}

\* A resolution that starts from pitch class 0 instead of the sentinel.
AbsRootZeroSentinel(outcome) ==
    IF outcome.called /\ ~outcome.raised THEN outcome.pc ELSE 0

\* abs_root after the try block.
AbsRoot(outcome) ==
    IF outcome.called /\ ~outcome.raised THEN outcome.pc ELSE -1

\* The outcomes of resolving every token of a list, as sequences.
RECURSIVE ResolutionRuns(_, _, _)
ResolutionRuns(has_music21, numerals, current_key) ==
    IF numerals = <<>> THEN {<<>>}
    ELSE {<<o>> \o rest :
            o \in ResolutionOutcomes(has_music21, Head(numerals), current_key),
            rest \in ResolutionRuns(has_music21, Tail(numerals), current_key)}

(***************************************************************************)
(* Event flattener.                                                        *)
(***************************************************************************)
DigitAtoms == <<"0", "1", "2", "3", "4", "5", "6", "7", "8", "9">>

\* str(n) of a natural number.
RECURSIVE IntToStr(_)
IntToStr(n) ==
    IF n < 10 THEN <<DigitAtoms[n + 1]>>
    ELSE IntToStr(n \div 10) \o <<DigitAtoms[(n % 10) + 1]>>

\* str(x) of a str that may be None.
FormatStr(x) == IF x = None THEN <<"None">> ELSE x[1]

\* f"{ht_id}_{section_name}".replace(" ", "_").lower()
SectionId(ht_id, section_name) ==
    Lower(Replace(IntToStr(ht_id) \o <<"_">> \o FormatStr(section_name),
                  <<" ">>, <<"_">>))

\* The atoms of titles and artists, numbered for the digest.
DigestAtoms == <<"Song", "Band", "Unknown", " ">>

RECURSIVE Digest(_, _)
Digest(s, h) ==
    IF s = <<>> THEN h
    ELSE LET code == IF \E i \in 1..Len(DigestAtoms) : DigestAtoms[i] = Head(s)
                     THEN CHOOSE i \in 1..Len(DigestAtoms) : DigestAtoms[i] = Head(s)
                     ELSE 0
         IN  Digest(Tail(s), (h * 31 + code + 1) % 100000000)

\* int(hashlib.md5(f"{artist}{title}".encode()).hexdigest(), 16) % (10**8),
\* with a polynomial digest in the place of md5: a fixed function of the
\* string into 0 .. 10^8 - 1.
HashId(artist, title) == Digest(FormatStr(artist) \o FormatStr(title), 7)

\* The events of the tokens from the i-th on, given each token's outcome.
RECURSIVE Events(_, _, _, _, _, _, _, _)
Events(numerals, outcomes, i, section_id, ht_id, section_name, current_key, mode) ==
    IF i > Len(numerals) THEN <<>>
    ELSE <<[section_id |-> section_id,
            song_id |-> ht_id,
            type |-> section_name,
            roman_numeral |-> numerals[i],
            absolute_root |-> AbsRoot(outcomes[i]),
            inversion |-> 0,
            tension_strain |->
                CalculateSpiralArrayTension(numerals[i], current_key, mode)]>>
         \o Events(numerals, outcomes, i + 1, section_id, ht_id, section_name,
                   current_key, mode)

\* A current key that falls back to C when the song's tonic is unknown.
CurrentKeyOrC(song) ==
    IF Truthy(song.key_tonic) THEN song.key_tonic ELSE Some(<<"C">>)

\* song.get('key_tonic', 'C'): the fallback is for a row without the field.
CurrentKey(song) ==
    IF "key_tonic" \in DOMAIN song THEN song.key_tonic ELSE Some(<<"C">>)

\* [c.strip() for c in cs if c.strip()]
RECURSIVE StripNonEmpty(_)
StripNonEmpty(cs) ==
    IF cs = <<>> THEN <<>>
    ELSE (IF Strip(Head(cs)) # <<>> THEN <<Strip(Head(cs))>> ELSE <<>>)
         \o StripNonEmpty(Tail(cs))

\* A split that hands the tokens back in reverse order.
RECURSIVE Reverse(_)
Reverse(s) == IF s = <<>> THEN <<>> ELSE Reverse(Tail(s)) \o <<Head(s)>>
SplitProgressionReversed(path_str) == Reverse(Split(path_str, ","))

\* path_str.split(',')
SplitProgression(path_str) == Split(path_str, ",")

\* The song row process_single_url builds from the scraped metadata.
SongEntry(url, meta) ==
    LET title == Get(meta, "song_title", <<"Unknown">>)
        artist == Get(meta, "artist", <<"Unknown">>)
    IN  [hooktheory_id |-> HashId(artist, title),
         url |-> url,
         title |-> title,
         artist |-> artist,
         bpm |-> meta["bpm"],
         key_tonic |-> meta["key_tonic"],
         mode |-> meta["mode"],
         genre |-> meta["genre"],
         chord_complexity |-> meta["chord_complexity"],
         melodic_complexity |-> meta["melodic_complexity"],
         chord_melody_tension |-> meta["chord_melody_tension"],
         chord_progression_novelty |-> meta["chord_progression_novelty"],
         chord_bass_melody |-> meta["chord_bass_melody"],
         trend_probability |->
             IF "trend_probability" \in DOMAIN meta
             THEN meta["trend_probability"] ELSE None]

\* The tokens process_single_url flattens: none when the progression is
\* missing or empty.
SingleUrlNumerals(meta) ==
    LET path_str == Get(meta, "chord_progression", <<>>)
    IN  IF Truthy(path_str) THEN StripNonEmpty(SplitProgression(path_str[1]))
        ELSE <<>>

\* s.join(ts)
RECURSIVE Join(_, _)
Join(ts, sep) ==
    IF ts = <<>> THEN <<>>
    ELSE IF Len(ts) = 1 THEN ts[1]
    ELSE ts[1] \o sep \o Join(Tail(ts), sep)

\* entry.get(k, default) of an entry of the raw data.
EntryGet(entry, k, default) == IF k \in DOMAIN entry THEN entry[k] ELSE default

\* Whether songs_dict holds ht_id, and its row.
HasSong(songs, ht_id) == \E i \in 1..Len(songs) : songs[i].hooktheory_id = ht_id
SongOf(songs, ht_id) ==
    songs[CHOOSE i \in 1..Len(songs) : songs[i].hooktheory_id = ht_id]

\* The row process_data builds for the first entry of a song, meta being
\* what fetch_song_metadata_from_page returned for its URL.
SongRow(entry, meta) ==
    [hooktheory_id |-> entry["id"],
     url |-> entry["url"],
     title |-> Some(entry["song"]),
     artist |-> Some(entry["artist"]),
     bpm |-> meta["bpm"],
     key_tonic |-> meta["key_tonic"],
     mode |-> meta["mode"],
     genre |-> meta["genre"],
     chord_complexity |-> meta["chord_complexity"],
     melodic_complexity |-> meta["melodic_complexity"],
     chord_melody_tension |-> meta["chord_melody_tension"],
     chord_progression_novelty |-> meta["chord_progression_novelty"],
     chord_bass_melody |-> meta["chord_bass_melody"],
     trend_probability |-> None]

\* A test that asks for a row at every entry.
NeedsRowAlways(songs, ht_id) == TRUE

\* ht_id not in songs_dict
NeedsRow(songs, ht_id) == ~HasSong(songs, ht_id)

\* songs_dict after the songs part of the loop body for one entry.
SongsAfter(songs, entry) ==
    IF NeedsRow(songs, entry["id"])
    THEN Append(songs, SongRow(entry, FetchSongMetadataFromPage(entry["url"])))
    ELSE songs

\* songs_dict after the entries from the i-th on, in insertion order.
RECURSIVE SongsDict(_, _, _)
SongsDict(raw_data, i, songs) ==
    IF i > Len(raw_data) THEN songs
    ELSE SongsDict(raw_data, i + 1, SongsAfter(songs, raw_data[i]))

\* The calls of fetch_song_metadata_from_page process_data makes for the
\* entries from the i-th on, as the song ids and URLs they are made for.
RECURSIVE DataFetches(_, _, _)
DataFetches(raw_data, i, songs) ==
    IF i > Len(raw_data) THEN <<>>
    ELSE (IF NeedsRow(songs, raw_data[i]["id"])
          THEN <<[id |-> raw_data[i]["id"], url |-> raw_data[i]["url"]]>>
          ELSE <<>>)
         \o DataFetches(raw_data, i + 1, SongsAfter(songs, raw_data[i]))

\* The tokens process_data flattens for an entry.
EntryNumerals(entry) ==
    LET path_str == EntryGet(entry, "path", <<>>)
    IN  SplitProgression(IF path_str = <<>>
                         THEN EntryGet(entry, "queried_progression", <<>>)
                         ELSE path_str)

\* The outcomes of resolving the tokens of every entry from the i-th on.
RECURSIVE EntryRuns(_, _, _, _)
EntryRuns(has_music21, raw_data, i, songs) ==
    IF i > Len(raw_data) THEN {<<>>}
    ELSE {<<run>> \o rest :
            run \in ResolutionRuns(has_music21, EntryNumerals(raw_data[i]),
                                   CurrentKey(SongOf(songs, raw_data[i]["id"]))),
            rest \in EntryRuns(has_music21, raw_data, i + 1, songs)}

\* The events of the entries from the i-th on.
RECURSIVE EntryEvents(_, _, _, _)
EntryEvents(raw_data, i, songs, runs) ==
    IF i > Len(raw_data) THEN <<>>
    ELSE LET entry == raw_data[i]
             ht_id == entry["id"]
             section_name == Some(EntryGet(entry, "section", <<"Unknown">>))
             song == SongOf(songs, ht_id)
         IN  Events(EntryNumerals(entry), runs[i], 1,
                    SectionId(ht_id, section_name), ht_id, section_name,
                    CurrentKey(song), song.mode)
             \o EntryEvents(raw_data, i + 1, songs, runs)

(***************************************************************************)
(* Calls of the flattener.                                                 *)
(***************************************************************************)
\* The URLs process_single_url is called on.
SingleUrls == DOMAIN Web \cup {""}

\* The token lists of the progressions the API returns.
ApiProgressions ==
    <<<<<<"1">>, <<"4">>, <<"5">>, <<"1">>>>,
      <<<<"I">>, <<"x">>, <<"V">>>>,
      <<<<"6">>, <<"4">>>>,
      <<<<"V">>, <<>>, <<"i", "i">>>>,
      <<>>,
      <<<<"1">>, <<"5">>, <<"6">>, <<"4">>>>,
      <<<<"2">>>>>>

ApiEntry(id, url, tokens) ==
    ("id" :> id) @@ ("song" :> <<"Song">>) @@ ("artist" :> <<"Band">>)
    @@ ("url" :> url) @@ ("path" :> Join(tokens, <<",">>))

\* The entries the API returns, one for each progression above.
ApiEntries ==
    <<ApiEntry(1, "/c", ApiProgressions[1]) @@ ("section" :> <<"Chorus">>),
      ApiEntry(1, "/a", ApiProgressions[2]),
      ApiEntry(2, "/nokey", ApiProgressions[3])
          @@ ("section" :> <<"Pre", " ", "Chorus">>),
      ApiEntry(2, "/c", ApiProgressions[4]) @@ ("section" :> <<"Verse">>),
      ApiEntry(3, "/down", ApiProgressions[5]),
      ("queried_progression" :> Join(ApiProgressions[6], <<",">>))
          @@ ApiEntry(3, "", <<>>),
      ApiEntry(2, "/nokey", ApiProgressions[7])
          @@ ("section" :> <<"Pre", "\t", "Chorus">>)>>

\* The raw data process_data is called on.
RawData ==
    UNION {[1..n -> {ApiEntries[k] : k \in 1..Len(ApiEntries)}] : n \in 0..MaxEntries}

\* No call of the aggregator, and no call of the flattener, has been made.
ExtractIdle ==
    content = <<>> /\ results = <<>> /\ extraction = <<>> /\ aggregated = <<>>

\* The paths of the CSV files; a file is None while it does not exist and
\* the sequence of its lines afterwards.
CsvPaths == {"hooktheory_songs.csv", "hooktheory_chords.csv"}
NoFiles == [path \in CsvPaths |-> None]

\* No call of the filter and no search has been made, and no file exists.
SearchIdle == filtered = None /\ files = NoFiles /\ search = None
FlattenIdle ==
    /\ HAS_MUSIC21 = FALSE /\ call = None
    /\ df_songs = <<>> /\ df_events = <<>>

FlattenInit ==
    /\ HAS_MUSIC21 \in BOOLEAN
    /\ call = None
    /\ df_songs = <<>>
    /\ df_events = <<>>
    /\ ExtractIdle
    /\ SearchIdle
    /\ tension_calls = <<>>

\* process_single_url(url) is called and returns; meta, song_entry and
\* numerals are its locals.
ProcessSingleUrl ==
    /\ call = None
    /\ \E url \in SingleUrls :
       \E meta \in {FetchSongMetadataFromPage(url)} :
       \E song_entry \in {SongEntry(url, meta)} :
       \E numerals \in {SingleUrlNumerals(meta)} :
       \E section_name \in {Get(meta, "type", <<"Unknown">>)} :
       \E run \in ResolutionRuns(HAS_MUSIC21, numerals, CurrentKey(song_entry)) :
            /\ df_songs' = <<song_entry>>
            /\ df_events' =
                   Events(numerals, run, 1,
                          SectionId(song_entry.hooktheory_id, section_name),
                          song_entry.hooktheory_id, section_name,
                          CurrentKey(song_entry), song_entry.mode)
            /\ call' = Some([op |-> "process_single_url",
                             url |-> url,
                             raw_data |-> <<>>,
                             fetched |-> <<[id |-> song_entry.hooktheory_id,
                                            url |-> url]>>,
                             path_str |-> Get(meta, "chord_progression", <<>>),
                             outcomes |-> <<run>>])
    /\ UNCHANGED <<HAS_MUSIC21, tensionVars, extractVars, searchVars>>

\* process_data(raw_data) is called and returns; songs is its songs_dict.
ProcessData ==
    /\ call = None
    /\ \E raw_data \in RawData :
       \E songs \in {SongsDict(raw_data, 1, <<>>)} :
       \E fetched \in {DataFetches(raw_data, 1, <<>>)} :
       \E runs \in EntryRuns(HAS_MUSIC21, raw_data, 1, songs) :
            /\ df_songs' = songs
            /\ df_events' = EntryEvents(raw_data, 1, songs, runs)
            /\ call' = Some([op |-> "process_data",
                             url |-> "",
                             raw_data |-> raw_data,
                             fetched |-> fetched,
                             path_str |-> None,
                             outcomes |-> runs])
    /\ UNCHANGED <<HAS_MUSIC21, tensionVars, extractVars, searchVars>>

FlattenNext == ProcessSingleUrl \/ ProcessData

SpecFlatten == FlattenInit /\ [][FlattenNext]_vars

(***************************************************************************)
(* Calls of the tension scorer.                                            *)
(***************************************************************************)
\* Symbols the scorer is first called on: the table's keys and some others.
BaseSymbols == DOMAIN tension_map \cup {<<>>, <<"x">>, <<"b", "V", "I", "I">>}

Markers == {<<"7">>, <<"d", "i", "m">>, <<"a", "u", "g">>,
            <<"m", "a", "j">>, <<"m", "i", "n">>}

\* Keys and modes the scorer is called with.
ScorerKeys == {None, Some(<<"C">>)}
ScorerModes == {None, Some(<<"Minor">>)}

\* The number of markers a symbol carries beyond a base symbol.
RECURSIVE MarkerCount(_)
MarkerCount(sym) ==
    IF sym \in BaseSymbols THEN 0
    ELSE LET fits == {m \in Markers :
                        /\ Len(sym) >= Len(m)
                        /\ SubSeq(sym, Len(sym) - Len(m) + 1, Len(sym)) = m}
         IN  IF fits = {} THEN 0
             ELSE LET m == CHOOSE x \in fits : TRUE
                  IN  1 + MarkerCount(SubSeq(sym, 1, Len(sym) - Len(m)))

TensionInit ==
    /\ tension_calls = <<>>
    /\ FlattenIdle
    /\ ExtractIdle
    /\ SearchIdle

\* The scorer is called on sym and returns.
Score(sym, key_tonic, mode) ==
    tension_calls' =
        <<[chord_symbol |-> sym,
           key_tonic |-> key_tonic,
           mode |-> mode,
           tension_strain |-> CalculateSpiralArrayTension(sym, key_tonic, mode)]>>
        \o (IF tension_calls = <<>> THEN <<>> ELSE <<tension_calls[1]>>)

\* A call on a base symbol; a run scores base symbols first and then builds
\* up one marked symbol.
ScoreBase ==
    /\ tension_calls # <<>> => tension_calls[1].chord_symbol \in BaseSymbols
    /\ \E sym \in BaseSymbols, k \in ScorerKeys, m \in ScorerModes :
           Score(sym, k, m)
    /\ UNCHANGED <<flattenVars, extractVars, searchVars>>

\* A call on the symbol of the last call with one more marker appended.
ScoreMarked ==
    /\ tension_calls # <<>>
    /\ MarkerCount(tension_calls[1].chord_symbol) < MaxMarkers
    /\ \E mk \in Markers, k \in ScorerKeys, m \in ScorerModes :
           Score(tension_calls[1].chord_symbol \o mk, k, m)
    /\ UNCHANGED <<flattenVars, extractVars, searchVars>>

TensionNext == ScoreBase \/ ScoreMarked

SpecTension == TensionInit /\ [][TensionNext]_vars

(***************************************************************************)
(* Calls of the aggregator.                                                *)
(***************************************************************************)
\* The parts a page text is put together from.
TitleParts ==
    {<<>>,
     <<"Song", " ", "by", " ", "Band", " ", "Chord", "s", "\n">>,
     <<" ", " ", "by", " ", "Band", " ", "Chord", "s", "\n">>}

KeyParts ==
    {<<>>,
     <<"written in the key of", " ", "A", " ", "Minor", "\n">>,
     <<"Written in the key of", " ", "B", "<flat>", " ", "Major", "\n">>,
     <<"written in the key of", " ", "b", " ", "MINOR", "\n">>,
     <<"written in the key of", " ", "F", "#", " ", " ", "Minor", "\n">>,
     <<"written in the key of", " ", "D", " ", "Dorian", "\n">>,
     <<"written in the key of", " ", "E", "\n">>,
     <<"written in the key of", " ", "H", " ", "Major", "\n">>}

TypeParts == {<<>>, <<"Chorus", "\n">>, <<"Pre", "-", "Chorus", " ", "Verse", "\n">>}

ProgressionParts ==
    {<<>>,
     <<"Progression", ":", " ", "I", " ", "V", " ", "v", "i", " ", "I", "V">>,
     <<"Chord", "s", ":", " ", "I", ",", " ", "I", "V", ",", " ", "V">>,
     <<"Progression", " ", "i", " ", "-", " ", "V", "I", "I", " ", "<arrow>",
       " ", "v", "i", "i", "d", "i", "m", "7">>,
     <<"i", "i", " ", "V", "7", " ", "I">>,
     <<"I", " ", "V">>}

\* Texts about the tempo: a number with the unit after it, a label before
\* it, neither, and no number at all.
BpmNumbers == {<<"1", "2", "0">>, <<"0">>, <<"9", "0">>}
BpmForms(n) ==
    {n \o <<" ", "b", "p", "m">>, n \o <<" ", "B", "P", "M">>, n \o <<"b", "p", "m">>,
     <<"b", "p", "m", ":", " ">> \o n, <<"B", "P", "M", " ">> \o n,
     <<"T", "e", "m", "p", "o", ":", " ">> \o n, <<"t", "e", "m", "p", "o", "\n">> \o n,
     <<"b", "p", "m">> \o n, <<"t", "e", "m", "p", "o", " ">> \o n \o <<" ", "b", "p", "m">>, n}
BpmTexts ==
    UNION {BpmForms(n) : n \in BpmNumbers}
        \cup {<<>>, <<"t", "e", "m", "p", "o">>, <<"f", "a", "s", "t">>}

\* Texts about the scores, the genre, the trend, the measures and the
\* inversions.
MetricTexts ==
    {<<"Chord", " ", "Complexity", " ", "5", "5", "\n", "Melodic", " ",
       "Complexity", " ", "7", "\n", "Chord", "-", "Melody", " ", "Tension",
       " ", "8", "0", "\n", "Chord", " ", "Progression", " ", "Novelty", " ",
       "1", "2", "\n", "Chord", " ", "Bass", " ", "Melody", " ", "4", "0">>,
     <<"Chord", " ", "Complexity", "5", "5", "%">>,
     <<"Chord", " ", "Complexity", "\n", "h", "i", "g", "h">>,
     <<"c", "h", "o", "r", "d", " ", "c", "o", "m", "p", "l", "e", "x", "i",
       "t", "y", " ", "5", "5">>,
     <<"Melodic", " ", "Complexity", " ", "0", "7", " ", "Chord", " ", "Bass",
       " ", "Melody", " ", "0">>,
     <<"G", "e", "n", "r", "e", ":", " ", "R", "o", "c", "k", "\n", "B", "P",
       "M", " ", "1", "2", "0">>,
     <<"t", "r", "e", "n", "d", "_", "p", "r", "o", "b", "a", "b", "i", "l",
       "i", "t", "y", ":", " ", "0", ".", "7", "5">>,
     <<"T", "r", "e", "n", "d", " ", "p", "r", "o", "b", "a", "b", "i", "l",
       "i", "t", "y", " ", "1">>,
     <<"t", "r", "e", "n", "d", " ", "p", "r", "o", "b", "a", "b", "i", "l",
       "i", "t", "y", ":", " ", "0", ".", "5", "0", " ", "s", "t", "y", "l",
       "e", " ", "p", "o", "p">>,
     <<"m", "e", "a", "s", "u", "r", "e", "s", " ", "5", "-", "8">>,
     <<"S", "t", "a", "r", "t", " ", "M", "e", "a", "s", "u", "r", "e", ":",
       " ", "3", " ", "E", "n", "d", " ", "M", "e", "a", "s", "u", "r", "e",
       ":", " ", "4">>,
     <<"I", "V", "/", "5", " ", "V", "/", "B">>,
     <<"I", "/", "3">>,
     <<"b", "V", "I", "I", "7", " ", "i", "v", "/", "G", "#", " ", "I">>,
     <<"V", "7", "/", "i", "i">>,
     <<"Song", " ", "by", " ", "Band", " ", "Chord", "s", "\n", "I", " ",
       "-", " ", "V", "/", "7", " ", "-", " ", "v", "i", "\n", "I">>}

PageTexts ==
    {t \o k \o y \o p :
        t \in TitleParts, k \in KeyParts, y \in TypeParts, p \in ProgressionParts}
    \cup BpmTexts \cup MetricTexts

ExtractInit ==
    /\ ExtractIdle
    /\ FlattenIdle
    /\ SearchIdle
    /\ tension_calls = <<>>

\* extract_music_info_from_text is called on a text and returns.
CallExtractMusicInfoFromText ==
    /\ results = None
    /\ \E text \in PageTexts :
        /\ content' = text
        /\ results' = Some(ExtractMusicInfoFromText(text))
    /\ UNCHANGED <<tensionVars, flattenVars, extraction, aggregated, searchVars>>

ExtractNext == CallExtractMusicInfoFromText

SpecExtract == ExtractInit /\ [][ExtractNext]_vars

(***************************************************************************)
(* Repeated calls of the aggregator.                                       *)
(***************************************************************************)
\* A record that is kept between the calls and updated by each of them.
AggregatorCallKeepingResults(earlier, text) ==
    IF earlier = <<>> THEN ExtractMusicInfoFromText(text)
    ELSE Update(earlier[Len(earlier)].results, ExtractMusicInfoFromText(text))

\* What the call on text returns after the calls in earlier: results is a
\* new dict in every call and the function reads nothing but its argument.
AggregatorCall(earlier, text) == ExtractMusicInfoFromText(text)

\* The texts of the repeated calls: empty, titled and keyed, keyed without
\* a title, a tempo, a score.
RepeatTexts ==
    {<<>>,
     SongByBand \o KeyOfAMinor,
     KeyOfCMajor \o <<"Verse", "\n">>,
     <<"B", "P", "M", " ", "1", "2", "0">>,
     <<"Chord", " ", "Complexity", " ", "5", "5">>}

RepeatInit ==
    /\ ExtractIdle
    /\ FlattenIdle
    /\ SearchIdle
    /\ tension_calls = <<>>

\* extract_music_info_from_text is called once more and returns.
RepeatExtractMusicInfoFromText ==
    /\ Len(aggregated) < MaxCalls
    /\ \E text \in RepeatTexts :
       \E returned \in {AggregatorCall(aggregated, text)} :
           aggregated' =
               Append(aggregated, [content |-> text, results |-> returned])
    /\ UNCHANGED <<tensionVars, flattenVars, content, results, extraction,
                   searchVars>>

RepeatNext == RepeatExtractMusicInfoFromText

SpecRepeat == RepeatInit /\ [][RepeatNext]_vars

(***************************************************************************)
(* The filter of the search engine.  A data frame is the sequence of its   *)
(* rows; filters is the dict of the search parameters, a function from    *)
(* the names it holds to their values.                                     *)
(***************************************************************************)
\* filters.get(k) is truthy.
Has(filters, k) == k \in DOMAIN filters /\ filters[k] # <<>>

\* The letters of the atoms a mode is made of.
AtomChars ==
    ("Minor" :> <<"M", "i", "n", "o", "r">>)
    @@ ("Major" :> <<"M", "a", "j", "o", "r">>)
    @@ ("MINOR" :> <<"M", "I", "N", "O", "R">>)

\* A string spelled character by character.
RECURSIVE Chars(_)
Chars(s) ==
    IF s = <<>> THEN <<>>
    ELSE (IF Head(s) \in DOMAIN AtomChars THEN AtomChars[Head(s)]
          ELSE <<Head(s)>>) \o Chars(Tail(s))

\* str(x) of a str that may be None, character by character.
StrOfText(x) == IF x = None THEN <<"N", "o", "n", "e">> ELSE Chars(x[1])

\* str(x) of an int that may be None.
StrOfScore(x) == IF x = None THEN <<"N", "o", "n", "e">> ELSE IntToStr(x[1])

\* try: val = float(val_str) / except: val = 0, for the str of an int or of
\* None.
FloatOrZero(val_str) == IF IsDigit(val_str) THEN StrToInt(val_str) ELSE 0

metrics_map ==
    ("complexity_chord" :> "chord_complexity")
    @@ ("complexity_melodic" :> "melodic_complexity")
    @@ ("complexity_tension" :> "chord_melody_tension")
    @@ ("complexity_novelty" :> "chord_progression_novelty")
    @@ ("complexity_bass" :> "chord_bass_melody")

\* is_match after the range tests of one complexity filter.
IsMatch(criteria, val) ==
    \/ Contains(criteria, <<"l", "o", "w">>) /\ val <= 40
    \/ Contains(criteria, <<"m", "e", "d", "i", "u", "m">>)
           /\ 25 <= val /\ val <= 75
    \/ Contains(criteria, <<"h", "i", "g", "h">>) /\ val >= 60
    \/ Contains(criteria, <<"m", "e", "d", "i", "u", "m", "-", "h", "i", "g", "h">>)
           /\ val >= 40

\* One turn of the loop over metrics_map does not return False.
MetricMatches(row, filters, filter_key) ==
    Has(filters, filter_key) =>
        IsMatch(Lower(filters[filter_key]),
                FloatOrZero(Replace(StrOfScore(row[metrics_map[filter_key]]),
                                    <<"%">>, <<>>)))

\* The key test does not return False.
KeyMatches(row, filters) ==
    Has(filters, "key") =>
        Contains(Lower(StrOfText(row.key_tonic)), Lower(Strip(filters["key"])))

\* The scale test does not return False.
ScaleMatches(row, filters) ==
    Has(filters, "scale") =>
        Contains(Lower(StrOfText(row.mode)), Lower(Strip(filters["scale"])))

\* filter_dataframe(df_row, filters)
FilterDataframe(df_row, filters) ==
    IF df_row = <<>> THEN FALSE
    ELSE LET row == df_row[1]
         IN  /\ KeyMatches(row, filters)
             /\ ScaleMatches(row, filters)
             /\ \A filter_key \in DOMAIN metrics_map :
                    MetricMatches(row, filters, filter_key)

(***************************************************************************)
(* Calls of the filter.                                                    *)
(***************************************************************************)
\* The parameter dicts of the searches that are run.
RunParams ==
    {("artist" :> <<"A", "d", "e", "l", "e">>),
     ("complexity_melodic" :> <<"l", "o", "w">>),
     ("progression" :> <<"1", ",", "6", ",", "4", ",", "5">>) @@ ("key" :> <<"C">>),
     ("tension" :> <<"h", "i", "g", "h">>)}

\* The parameter dicts handed to the filter.
SearchParams ==
    RunParams
    \cup {("complexity_chord" :> <<"h", "i", "g", "h">>),
          ("artist" :> <<"N", "i", "r", "v", "a", "n", "a">>) @@ ("complexity_chord" :> <<"m", "e", "d", "i", "u", "m">>),
          ("trend" :> <<"t", "r", "u", "e">>),
          ("key" :> <<"A">>) @@ ("mode" :> <<"M", "i", "n", "o", "r">>),
          ("key" :> <<" ", "e", " ">>),
          ("scale" :> <<"M", "i", "n", "o", "r">>),
          ("complexity_chord" :> <<"M", "e", "d", "i", "u", "m", "-", "H", "i", "g", "h">>),
          ("complexity_tension" :> <<"l", "o", "w", " ", "h", "i", "g", "h">>),
          ("key" :> <<"C">>) @@ ("complexity_melodic" :> <<"l", "o", "w", "e", "s", "t">>)}

\* The tonics and modes, and the scores, of the rows handed to the filter.
FilterKeys ==
    {<<None, None>>, <<Some(<<"C">>), Some(<<"Major">>)>>,
     <<Some(<<"C", "#">>), Some(<<"Minor">>)>>,
     <<Some(<<"A">>), Some(<<"Minor">>)>>}
FilterScores == {None, Some(0), Some(25), Some(40), Some(41), Some(60), Some(76)}

\* The row of a song named Song by Band with the given key and scores.
FilterRow(key, chord_complexity, melodic_complexity) ==
    [hooktheory_id |-> HashId(Some(<<"Band">>), Some(<<"Song">>)),
     url |-> "/a",
     title |-> Some(<<"Song">>),
     artist |-> Some(<<"Band">>),
     bpm |-> None,
     key_tonic |-> key[1],
     mode |-> key[2],
     genre |-> None,
     chord_complexity |-> chord_complexity,
     melodic_complexity |-> melodic_complexity,
     chord_melody_tension |-> None,
     chord_progression_novelty |-> None,
     chord_bass_melody |-> None,
     trend_probability |-> None]

\* The data frames handed to the filter: empty, or one row.
FilterFrames ==
    {<<>>}
    \cup {<<FilterRow(key, chord, melodic)>> :
            key \in FilterKeys, chord \in FilterScores,
            melodic \in {None, Some(30)}}

FilterInit ==
    /\ ExtractIdle
    /\ FlattenIdle
    /\ SearchIdle
    /\ tension_calls = <<>>

\* filter_dataframe is called and returns.
CallFilterDataframe ==
    /\ filtered = None
    /\ \E df_row \in FilterFrames, filters \in SearchParams :
           filtered' = Some([df_row |-> df_row, filters |-> filters,
                             value |-> FilterDataframe(df_row, filters)])
    /\ UNCHANGED <<tensionVars, flattenVars, extractVars, files, search>>

FilterNext == CallFilterDataframe

SpecFilter == FilterInit /\ [][FilterNext]_vars

(***************************************************************************)
(* CSV files.  A file is the sequence of its lines; a line is the header   *)
(* of a data frame, which names its columns, or one of its rows.           *)
(***************************************************************************)
\* The columns of a data frame; a frame made of no records has none.
Columns(df) == IF df = <<>> THEN {} ELSE DOMAIN df[1]

\* The lines of a file; none while it does not exist.
Lines(file) == IF file = None THEN <<>> ELSE file[1]

HeaderLine(df) == [header |-> TRUE, columns |-> Columns(df), row |-> None]
RowLine(df, k) ==
    [header |-> FALSE, columns |-> Columns(df), row |-> Some(df[k])]

\* The file after df.to_csv(csv_path, mode='a', header=header, index=False).
ToCsv(file, df, header) ==
    Some(Lines(file)
         \o (IF header THEN <<HeaderLine(df)>> ELSE <<>>)
         \o [k \in 1..Len(df) |-> RowLine(df, k)])

\* An appender that writes the header in every call.
AppendToCsvHeaderAlways(fs, df, csv_path) ==
    [fs EXCEPT ![csv_path] = ToCsv(fs[csv_path], df, TRUE)]

\* The files after append_to_csv(df, csv_path).
AppendToCsv(fs, df, csv_path) ==
    [fs EXCEPT ![csv_path] = ToCsv(fs[csv_path], df, fs[csv_path] = None)]

\* Where a try block that processes a URL and appends its two frames may
\* raise: writing meta.txt in process_single_url, or opening a CSV file.
RaisePoints == {"nowhere", "process_single_url", "append_songs", "append_chords"}

\* The files after the two appends of the try block, given where it raised.
AppendBoth(fs, songs, events, csv_path, raised) ==
    IF raised \in {"process_single_url", "append_songs"} THEN fs
    ELSE IF raised = "append_chords" THEN AppendToCsv(fs, songs, csv_path)
    ELSE AppendToCsv(AppendToCsv(fs, songs, csv_path), events,
                     "hooktheory_chords.csv")

\* The events frame process_single_url returns for the outcomes in run.
SingleUrlEvents(song_entry, numerals, section_name, run) ==
    Events(numerals, run, 1,
           SectionId(song_entry.hooktheory_id, section_name),
           song_entry.hooktheory_id, section_name,
           CurrentKey(song_entry), song_entry.mode)

(***************************************************************************)
(* Calls of the appender.                                                  *)
(***************************************************************************)
\* The frames append_to_csv is called on, and the URLs
\* process_single_url_and_append is called on.
AppendedFrames == {<<>>, <<FilterRow(<<None, None>>, None, None)>>}
AppendUrls == {"/c", "/sharp"}

\* The files are short enough for one more call.
FilesShort ==
    Len(Lines(files["hooktheory_songs.csv"]))
        + Len(Lines(files["hooktheory_chords.csv"])) < MaxLines

AppendInit ==
    /\ HAS_MUSIC21 \in BOOLEAN
    /\ call = None
    /\ df_songs = <<>>
    /\ df_events = <<>>
    /\ ExtractIdle
    /\ SearchIdle
    /\ tension_calls = <<>>

\* append_to_csv(df, csv_path) is called and returns.
CallAppendToCsv ==
    /\ FilesShort
    /\ \E df \in AppendedFrames, csv_path \in CsvPaths :
           files' = AppendToCsv(files, df, csv_path)
    /\ UNCHANGED <<tensionVars, flattenVars, extractVars, filtered, search>>

\* process_single_url_and_append(url, csv_path) is called and returns.
CallProcessSingleUrlAndAppend ==
    /\ FilesShort
    /\ \E url \in AppendUrls, csv_path \in CsvPaths :
       \E meta \in {FetchSongMetadataFromPage(url)} :
       \E song_entry \in {SongEntry(url, meta)} :
       \E numerals \in {SingleUrlNumerals(meta)} :
       \E section_name \in {Get(meta, "type", <<"Unknown">>)} :
       \E run \in ResolutionRuns(HAS_MUSIC21, numerals, CurrentKey(song_entry)) :
       \E raised \in RaisePoints :
           files' = AppendBoth(files, <<song_entry>>,
                               SingleUrlEvents(song_entry, numerals,
                                               section_name, run),
                               csv_path, raised)
    /\ UNCHANGED <<tensionVars, flattenVars, extractVars, filtered, search>>

AppendNext == CallAppendToCsv \/ CallProcessSingleUrlAndAppend

SpecAppend == AppendInit /\ [][AppendNext]_vars

(***************************************************************************)
(* The search.  A URL is written as its path on the site; the sources of   *)
(* candidates are network calls, which may hand back any list of URLs.     *)
(***************************************************************************)
\* The URLs the sources hand back, in the order sorted() puts them.
UrlOrder == <<"/c", "/down", "/sharp">>
SearchUrls == {UrlOrder[k] : k \in 1..Len(UrlOrder)}

\* Whether one of the sources A to D is asked for candidates.  The names
\* that start with 'complexity' are the keys of metrics_map.
Gathers(params) ==
    \/ Has(params, "progression")
    \/ Has(params, "artist") \/ Has(params, "genre") \/ Has(params, "song")
    \/ Has(params, "trend")
    \/ \E k \in DOMAIN params : k \in DOMAIN metrics_map
    \/ Has(params, "key") \/ Has(params, "scale")

\* candidate_urls before the de-duplication.
GatheredLists(params) ==
    IF Gathers(params)
    THEN UNION {[1..n -> SearchUrls] : n \in 0..MaxCandidates}
    ELSE {<<>>}

\* sorted(list(set(candidate_urls)))
RECURSIVE SortedFrom(_, _)
SortedFrom(urls, k) ==
    IF k > Len(UrlOrder) THEN <<>>
    ELSE (IF UrlOrder[k] \in urls THEN <<UrlOrder[k]>> ELSE <<>>)
         \o SortedFrom(urls, k + 1)
SortedSet(candidate_urls) ==
    SortedFrom({candidate_urls[k] : k \in 1..Len(candidate_urls)}, 1)

\* Where one turn of the loop may raise: the appends are reached only for
\* a song that matches.
TurnRaisePoints(matches) ==
    IF matches THEN RaisePoints ELSE {"nowhere", "process_single_url"}

\* The line a turn of the loop prints for its URL.
TurnOutcome(matches, raised) ==
    IF raised # "nowhere" THEN "Failed to process"
    ELSE IF matches THEN "Match found" ELSE "Filtered out"

SearchInit ==
    /\ HAS_MUSIC21 \in BOOLEAN
    /\ call = None
    /\ df_songs = <<>>
    /\ df_events = <<>>
    /\ ExtractIdle
    /\ SearchIdle
    /\ tension_calls = <<>>

\* run_search(params) is called and runs up to the loop.
RunSearch ==
    /\ search = None
    /\ \E params \in RunParams :
       \E gathered \in GatheredLists(params) :
           search' = Some([params |-> params,
                           candidate_urls |-> SortedSet(gathered),
                           position |-> 1,
                           processed_count |-> 0,
                           matched_count |-> 0,
                           printed |-> <<>>,
                           returned |-> FALSE])
    /\ UNCHANGED <<tensionVars, flattenVars, extractVars, filtered, files>>

\* One turn of the loop over candidate_urls.
ProcessCandidate ==
    /\ search # None
    /\ search[1].position <= Len(search[1].candidate_urls)
    /\ \E url \in {search[1].candidate_urls[search[1].position]} :
       \E meta \in {FetchSongMetadataFromPage(url)} :
       \E song_entry \in {SongEntry(url, meta)} :
       \E numerals \in {SingleUrlNumerals(meta)} :
       \E section_name \in {Get(meta, "type", <<"Unknown">>)} :
       \E run \in ResolutionRuns(HAS_MUSIC21, numerals, CurrentKey(song_entry)) :
       \E matches \in {FilterDataframe(<<song_entry>>, search[1].params)} :
       \E raised \in TurnRaisePoints(matches) :
           /\ files' =
                  IF matches
                  THEN AppendBoth(files, <<song_entry>>,
                                  SingleUrlEvents(song_entry, numerals,
                                                  section_name, run),
                                  "hooktheory_songs.csv", raised)
                  ELSE files
           /\ search' =
                  Some([search[1] EXCEPT
                      !.position = @ + 1,
                      !.processed_count =
                          IF raised = "nowhere" THEN @ + 1 ELSE @,
                      !.matched_count =
                          IF raised = "nowhere" /\ matches THEN @ + 1 ELSE @,
                      !.printed =
                          Append(@, [url |-> url,
                                     line |-> TurnOutcome(matches, raised)])])
    /\ UNCHANGED <<tensionVars, flattenVars, extractVars, filtered>>

\* The loop is over; run_search prints the counts and returns.
ReturnSearch ==
    /\ search # None
    /\ ~search[1].returned
    /\ search[1].position > Len(search[1].candidate_urls)
    /\ search' = Some([search[1] EXCEPT !.returned = TRUE])
    /\ UNCHANGED <<tensionVars, flattenVars, extractVars, filtered, files>>

SearchNext == RunSearch \/ ProcessCandidate \/ ReturnSearch

SpecSearch == SearchInit /\ [][SearchNext]_vars

(***************************************************************************)
(* Calls of the field extractors.                                          *)
(***************************************************************************)
FieldsInit ==
    /\ ExtractIdle
    /\ FlattenIdle
    /\ SearchIdle
    /\ tension_calls = <<>>

\* The record of a call of the extractor fn on text that returned value.
Extraction(fn, text, value) ==
    Some([fn |-> fn, content |-> text, value |-> value])

\* Texts about the genre: a label with a name, with a name that starts with
\* a digit, with nothing after it, and no label.
GenreTexts ==
    {<<"G", "e", "n", "r", "e", ":", " ", "R", "o", "c", "k">>,
     <<"g", "e", "n", "r", "e", ":", " ", "H", "i", "p", "-", "H", "o", "p", "\n">>,
     <<"S", "t", "y", "l", "e", ":", " ", " ", "I", "n", "d", "i", "e", " ", "P", "o", "p", " ", "\n", "1", "2", "0", " ", "b", "p", "m">>,
     <<"G", "e", "n", "r", "e", ":", "R", "o", "c", "k">>,
     <<"G", "E", "N", "R", "E", "\n", "J", "a", "z", "z">>,
     <<"G", "e", "n", "r", "e", ":", " ", "8", "0", "s">>,
     <<"g", "e", "n", "r", "e", ":", "\n", "9", "0", " ", "b", "p", "m">>,
     <<"s", "t", "y", "l", "e", ":", " ", "-">>,
     <<"G", "e", "n", "r", "e", ":">>,
     <<"g", "e", "n", "r", "e">>,
     <<"l", "i", "f", "e", "s", "t", "y", "l", "e", " ", "c", "h", "o", "i", "c", "e", "s">>,
     <<"R", "o", "c", "k">>,
     <<>>,
     <<"G", "e", "n", "r", "e", ":", " ", "R", "&", "B">>,
     <<"s", "t", "y", "l", "e", " ", ":", " ", "2", "-", "s", "t", "e", "p">>}

CallExtractGenre ==
    /\ extraction = None
    /\ \E text \in GenreTexts :
           extraction' =
               Extraction("extract_genre", text, ExtractGenre(text))
    /\ UNCHANGED <<tensionVars, flattenVars, content, results, aggregated,
                   searchVars>>

\* The sentence that names the key of a song.
KeySentence(tonic, mode) ==
    <<"written in the key of", " ">> \o tonic \o <<" ", mode>>

\* Every tonic, a letter with an optional accidental, and every modal name.
Tonics ==
    {<<l>> \o a : l \in {"A", "B", "C", "D", "E", "F", "G"},
                  a \in {<<>>, <<"#">>, <<"b">>, <<"<sharp>">>, <<"<flat>">>}}
ModalNames ==
    {"Major", "Minor", "Dorian", "Phrygian", "Lydian", "Mixolydian", "Locrian"}
KeyTexts == {KeySentence(t, m) : t \in Tonics, m \in ModalNames}

CallExtractKeyAndMode ==
    /\ extraction = None
    /\ \E text \in KeyTexts :
           extraction' =
               Extraction("extract_key_and_mode", text, ExtractKeyAndMode(text))
    /\ UNCHANGED <<tensionVars, flattenVars, content, results, aggregated,
                   searchVars>>

\* The phrases a text about a section is put together from: the section
\* names in either letter case, "prechorus" in one word, and a word that
\* names no section.
TypePhrases ==
    {<<"Pre", "-", "Chorus">>, <<"pre", "chorus">>, <<"Chorus">>, <<"verse">>,
     <<"Verse">>, <<"Intro">>, <<"Outro">>, <<"bridge">>, <<"Hook">>,
     <<"Interlude">>, <<"Song">>}

\* The texts of at most n phrases, a space between two phrases.
RECURSIVE PhraseTexts(_)
PhraseTexts(n) ==
    IF n = 0 THEN {<<>>}
    ELSE TypePhrases
         \cup {t \o <<" ">> \o ph : t \in PhraseTexts(n - 1) \ {<<>>},
                                    ph \in TypePhrases}
         \cup {<<>>}
TypeTexts == PhraseTexts(MaxPhrases)

CallExtractType ==
    /\ extraction = None
    /\ \E text \in TypeTexts :
           extraction' =
               Extraction("extract_type", text, ExtractType(text))
    /\ UNCHANGED <<tensionVars, flattenVars, content, results, aggregated,
                   searchVars>>

\* The phrases a text about measures is put together from, each with its
\* own numbers: the phrasings of the start and end patterns and a word that
\* matches none.
MeasurePhrases ==
    {<<"S", "t", "a", "r", "t", " ", "M", "e", "a", "s", "u", "r", "e", ":", " ", "3">>,
     <<"m", "e", "a", "s", "u", "r", "e", "s", " ", "5", "-", "8">>,
     <<"m", ".", " ", "9", " ", "t", "o", " ", "1", "2">>,
     <<"f", "r", "o", "m", " ", "m", "e", "a", "s", "u", "r", "e", " ", "7">>,
     <<"b", "e", "g", "i", "n", "s", " ", "a", "t", " ", "m", "e", "a", "s", "u", "r", "e", " ", "2">>,
     <<"E", "n", "d", " ", "M", "e", "a", "s", "u", "r", "e", ":", " ", "1", "6">>,
     <<"t", "o", " ", "m", "e", "a", "s", "u", "r", "e", " ", "2", "0">>,
     <<"e", "n", "d", "s", " ", "a", "t", " ", "2", "4">>,
     <<"C", "h", "o", "r", "u", "s">>}

\* The texts of one phrase and of two phrases in either order.
MeasureTexts ==
    {<<>>} \cup MeasurePhrases
        \cup {a \o <<",", " ">> \o b : a \in MeasurePhrases, b \in MeasurePhrases}

CallExtractStartMeasure ==
    /\ extraction = None
    /\ \E text \in MeasureTexts :
           extraction' =
               Extraction("extract_start_measure", text, ExtractStartMeasure(text))
    /\ UNCHANGED <<tensionVars, flattenVars, content, results, aggregated,
                   searchVars>>

CallExtractEndMeasure ==
    /\ extraction = None
    /\ \E text \in MeasureTexts :
           extraction' =
               Extraction("extract_end_measure", text, ExtractEndMeasure(text))
    /\ UNCHANGED <<tensionVars, flattenVars, content, results, aggregated,
                   searchVars>>

\* The phrases a text about roots is put together from: roots with an
\* accidental as a glyph and in ASCII, with and without a mode, and a word
\* that holds no root.
RootPhrases ==
    {<<"B", "<flat>", " ", "M", "a", "j", "o", "r">>,
     <<"B", "b">>,
     <<"C", "#", "m">>,
     <<"D", "<sharp>">>,
     <<"E">>,
     <<"A", "m">>,
     <<"A">>,
     <<"B", "a", "n", "d">>}

\* The texts of one phrase, of two phrases, and of a phrase on both sides of
\* another.
RootTexts ==
    {<<>>} \cup RootPhrases
        \cup {a \o <<" ">> \o b : a \in RootPhrases, b \in RootPhrases}
        \cup {a \o <<" ">> \o b \o <<" ">> \o a :
                 a \in RootPhrases, b \in RootPhrases}

CallExtractAbsoluteRoot ==
    /\ extraction = None
    /\ \E text \in RootTexts :
           extraction' =
               Extraction("extract_absolute_root", text, ExtractAbsoluteRoot(text))
    /\ UNCHANGED <<tensionVars, flattenVars, content, results, aggregated,
                   searchVars>>

\* Texts about a progression: the labeled and unlabeled forms of the page
\* texts, and unlabeled runs of numerals with several spaces, tabs or line
\* breaks between them.
ProgressionTexts ==
    ProgressionParts \cup
    {<<"i", "i", " ", " ", "V", "7", "\n", "I">>,
     <<"x", " ", "i", "i", "\t", "V", " ", " ", "I", " ", "y">>,
     <<"I", " ", "V", " ", "v", "i", " ", "I", "V">>,
     <<"I", "\n", "I", "V", "\n", "V">>,
     <<"b", "V", "I", "I", " ", " ", "I", "V", " ", "I">>,
     <<"i", "i", ",", "V", ",", "I">>,
     <<"I", " ", "V">>,
     <<"B", "a", "n", "d">>}

CallExtractChordProgression ==
    /\ extraction = None
    /\ \E text \in ProgressionTexts :
           extraction' =
               Extraction("extract_chord_progression", text, ExtractChordProgression(text))
    /\ UNCHANGED <<tensionVars, flattenVars, content, results, aggregated,
                   searchVars>>

CallExtractBpm ==
    /\ extraction = None
    /\ \E text \in BpmTexts :
           extraction' =
               Extraction("extract_bpm", text, ExtractBpm(text))
    /\ UNCHANGED <<tensionVars, flattenVars, content, results, aggregated,
                   searchVars>>

FieldsNext ==
    \/ CallExtractBpm
    \/ CallExtractGenre
    \/ CallExtractKeyAndMode
    \/ CallExtractType
    \/ CallExtractStartMeasure
    \/ CallExtractEndMeasure
    \/ CallExtractAbsoluteRoot
    \/ CallExtractChordProgression

SpecFields == FieldsInit /\ [][FieldsNext]_vars

(***************************************************************************)
(* Properties of the field extractors.                                     *)
(***************************************************************************)
\* The extractor fn has been called.
Called(fn) == extraction # None /\ extraction[1].fn = fn

DigitRun == Plus(OneOf(Digits))
bpm == <<"b", "p", "m">>
tempo == <<"t", "e", "m", "p", "o">>

\* The number in a text followed by the unit, or preceded by the label, in
\* any letter case; None when the text has no such pairing.
UnitFollows(text) ==
    LET m == Search(Cat(<<Group(1, DigitRun), Star(WS), Lit(bpm)>>), text, TRUE)
    IN  IF m = None THEN None ELSE Some(StrToInt(GroupText(text, m[1], 1)))
LabelPrecedes(text) ==
    LET m == Search(Cat(<<Lit(tempo), Star(OneOf({":"} \cup Whitespace)),
                          Group(1, DigitRun)>>), text, TRUE)
    IN  IF m = None THEN None ELSE Some(StrToInt(GroupText(text, m[1], 1)))

\* C11: extract_bpm returns N for a text where the digit cluster N is followed
\* by "bpm" and for a text where N is preceded by "tempo", and returns None
\* only when the text has neither pairing.
C11_TempoBothPairings ==
    Called("extract_bpm") =>
        LET text == extraction[1].content
            value == extraction[1].value
        IN  /\ UnitFollows(text) # None /\ LabelPrecedes(text) = None
                => value = UnitFollows(text)
            /\ LabelPrecedes(text) # None => value = LabelPrecedes(text)
            /\ value = None
                => UnitFollows(text) = None /\ LabelPrecedes(text) = None

\* C13: extract_genre returns None or a non-empty label with no leading or
\* trailing whitespace.
C13_GenreNeverEmpty ==
    Called("extract_genre") =>
        LET value == extraction[1].value
        IN  value = None
                \/ (value[1] # <<>> /\ Strip(value[1]) = value[1])

\* C14: for every tonic and every one of the seven modal names, the text
\* "written in the key of <tonic> <mode>" yields the pair (tonic, mode).
C14_SevenModalNames ==
    Called("extract_key_and_mode") =>
        \A t \in Tonics, m \in ModalNames :
            extraction[1].content = KeySentence(t, m)
                => extraction[1].value = <<Some(t), Some(<<m>>)>>

\* A tonic in canonical form: an upper-case letter A-G with an optional
\* ASCII accidental.
Canonical(tonic) ==
    /\ Len(tonic) \in {1, 2}
    /\ tonic[1] \in {"A", "B", "C", "D", "E", "F", "G"}
    /\ Len(tonic) = 2 => tonic[2] \in {"#", "b"}

\* C15: a key_tonic present in the aggregator's record is in canonical form.
C15_KeyTonicCanonical ==
    (results # None /\ results[1]["key_tonic"] # None)
        => Canonical(results[1]["key_tonic"][1])

\* The section names in their priority order, each with the keywords that
\* stand for it in lower case.
SectionPriority ==
    <<[name |-> <<"Pre", "-", "Chorus">>,
       keywords |-> {<<"pre", "-", "chorus">>, <<"pre", "chorus">>}],
      [name |-> <<"Chorus">>, keywords |-> {<<"chorus">>}],
      [name |-> <<"Verse">>, keywords |-> {<<"verse">>}],
      [name |-> <<"Intro">>, keywords |-> {<<"intro">>}],
      [name |-> <<"Outro">>, keywords |-> {<<"outro">>}],
      [name |-> <<"Bridge">>, keywords |-> {<<"bridge">>}],
      [name |-> <<"Hook">>, keywords |-> {<<"hook">>}],
      [name |-> <<"Interlude">>, keywords |-> {<<"interlude">>}]>>

\* The keyword kw occurs in text at position i, in any letter case.
OccursAt(kw, text, i) ==
    /\ i + Len(kw) - 1 <= Len(text)
    /\ \A k \in 1..Len(kw) : LowerAtom(text[i + k - 1]) = kw[k]

\* The priorities of the section names that have a keyword in the text.
SectionsNamed(text) ==
    {p \in 1..Len(SectionPriority) :
        \E kw \in SectionPriority[p].keywords, i \in 1..Len(text) :
            OccursAt(kw, text, i)}

\* C16: extract_type returns the section name of the highest priority that
\* has a keyword anywhere in the text, and "Unknown" exactly when no keyword
\* occurs.
C16_TypeByPriority ==
    Called("extract_type") =>
        LET named == SectionsNamed(extraction[1].content)
        IN  /\ named # {}
                => extraction[1].value
                       = SectionPriority[CHOOSE p \in named :
                                            \A q \in named : p <= q].name
            /\ named = {} <=> extraction[1].value = <<"Unknown">>

\* A text that names a verse first and a pre-chorus after it was classified
\* as Pre-Chorus.
C16_Witness ==
    /\ Called("extract_type")
    /\ extraction[1].content = <<"Verse", " ", "Pre", "-", "Chorus">>
    /\ extraction[1].value = <<"Pre", "-", "Chorus">>

\* The patterns of the measure extractor that was called.
CalledPatterns ==
    IF extraction[1].fn = "extract_start_measure" THEN StartMeasurePatterns
    ELSE EndMeasurePatterns

\* The number the k-th pattern captures in the text.
CaptureOf(patterns, k, text) ==
    StrToInt(GroupText(text, Search(patterns[k], text, TRUE)[1], 1))

\* C17: when the text matches phrasings i and j with i < j, the measure is
\* the one phrasing i captures, wherever in the text the two match; the
\* result is None only when no phrasing matches.
C17_PatternPriorityOverPosition ==
    (Called("extract_start_measure") \/ Called("extract_end_measure")) =>
        LET text == extraction[1].content
            hits == {k \in 1..Len(CalledPatterns) :
                        Search(CalledPatterns[k], text, TRUE) # None}
        IN  /\ \A i \in hits :
                   (\A j \in hits : i <= j)
                       => extraction[1].value
                              = Some(CaptureOf(CalledPatterns, i, text))
            /\ extraction[1].value = None <=> hits = {}

\* The start measure of a text whose fourth phrasing comes before its first
\* phrasing is the one the first phrasing captures.
C17_Witness ==
    /\ Called("extract_start_measure")
    /\ extraction[1].content =
           <<"f", "r", "o", "m", " ", "m", "e", "a", "s", "u", "r", "e", " ", "7", ",",
             " ", "S", "t", "a", "r", "t", " ", "M", "e", "a", "s", "u", "r",
             "e", ":", " ", "3">>
    /\ extraction[1].value = Some(3)

\* The index of the first match of the text whose root, with its glyph
\* replaced, is root.
FirstAppearance(root, text) ==
    CHOOSE k \in 1..Len(RootMatches(text)) :
        /\ NormalizeAccidentals(RootMatches(text)[k]) = root
        /\ \A j \in 1..(k - 1) : NormalizeAccidentals(RootMatches(text)[j]) # root

\* C18: the list extract_absolute_root returns holds no glyph, holds no root
\* twice, holds every root of the text and keeps the roots in the order of
\* their first appearance.
C18_RootsNormalizedThenUnique ==
    (Called("extract_absolute_root") /\ extraction[1].value # None) =>
        LET text == extraction[1].content
            roots == extraction[1].value[1]
        IN  /\ \A i \in 1..Len(roots) :
                   ~Contains(roots[i], <<"<flat>">>) /\ ~Contains(roots[i], <<"<sharp>">>)
            /\ \A i, j \in 1..Len(roots) : i # j => roots[i] # roots[j]
            /\ {roots[i] : i \in 1..Len(roots)}
                   = {NormalizeAccidentals(RootMatches(text)[k]) :
                        k \in 1..Len(RootMatches(text))}
            /\ \A i, j \in 1..Len(roots) :
                   i < j => FirstAppearance(roots[i], text)
                               < FirstAppearance(roots[j], text)

\* A text that spells B flat with the glyph and then in ASCII gave the one
\* root "Bb".
C18_Witness ==
    /\ Called("extract_absolute_root")
    /\ extraction[1].content = <<"B", "<flat>", " ", "M", "a", "j", "o", "r", " ", "B", "b">>
    /\ extraction[1].value = Some(<<<<"B", "b">>>>)

\* C19: the string extract_chord_progression returns, from either tier, has
\* no comma, dash, arrow or line break, and no two whitespace characters in
\* a row: its tokens are separated by exactly one space.
C19_SingleSpaceSeparated ==
    (Called("extract_chord_progression") /\ extraction[1].value # None) =>
        LET prog == extraction[1].value[1]
        IN  /\ \A i \in 1..Len(prog) :
                   prog[i] \notin {",", "-", "<endash>", "<arrow>", "\n", "\t"}
            /\ \A i \in 1..(Len(prog) - 1) :
                   ~(prog[i] \in Whitespace /\ prog[i + 1] \in Whitespace)

\* C12: the bpm field of the aggregator's record is None or a positive
\* integer, and it is None for a text that holds neither "bpm" nor "tempo".
C12_BpmNoneOrPositive ==
    results # None =>
        /\ results[1]["bpm"] = None \/ results[1]["bpm"][1] > 0
        /\ (~Contains(Lower(content), bpm) /\ ~Contains(Lower(content), tempo))
               => results[1]["bpm"] = None

(***************************************************************************)
(* Properties of the aggregator.                                           *)
(***************************************************************************)
\* C1: the record extract_music_info_from_text returns has key_tonic present
\* exactly when it has mode present.
C1_KeyModeAtomic ==
    results # None =>
        (results[1]["key_tonic"] # None <=> results[1]["mode"] # None)

\* A text that names its key and mode was aggregated, and both are present.
C1_Witness ==
    /\ results # None
    /\ Contains(content, <<"written in the key of">>)
    /\ results[1]["key_tonic"] = Some(<<"A">>)
    /\ results[1]["mode"] = Some(<<"Minor">>)

(***************************************************************************)
(* Properties of the event flattener.                                      *)
(***************************************************************************)
\* The call of the flattener the state records.
SingleUrlCalled == call # None /\ call[1].op = "process_single_url"
DataCalled == call # None /\ call[1].op = "process_data"

\* The concatenation of a sequence of sequences.
RECURSIVE Concat(_)
Concat(ss) == IF ss = <<>> THEN <<>> ELSE Head(ss) \o Concat(Tail(ss))

EventNumerals == [i \in 1..Len(df_events) |-> df_events[i].roman_numeral]

\* The number of non-empty tokens of a string delimited by commas or spaces.
RECURSIVE TokenCount(_)
TokenCount(s) ==
    IF s = <<>> THEN 0
    ELSE IF Head(s) \in {",", " "} THEN TokenCount(Tail(s))
    ELSE IF Len(s) = 1 \/ s[2] \in {",", " "} THEN 1 + TokenCount(Tail(s))
    ELSE TokenCount(Tail(s))

\* C2: for a progression of n non-empty tokens separated by commas or by
\* spaces, process_single_url emits exactly n events.
C2_OneEventPerToken ==
    (SingleUrlCalled /\ Truthy(call[1].path_str))
        => Len(df_events) = TokenCount(call[1].path_str[1])

\* The token list an entry of the raw data was put together from.
ProgressionOf(entry) ==
    ApiProgressions[CHOOSE k \in 1..Len(ApiEntries) : ApiEntries[k] = entry]

\* C3: for a comma-delimited progression t1,...,tn the i-th event of the
\* song carries roman_numeral = ti; no event is reordered, dropped or
\* duplicated.
C3_EventOrderIsTokenOrder ==
    /\ (DataCalled
           /\ \A i \in 1..Len(call[1].raw_data) :
                  ProgressionOf(call[1].raw_data[i]) # <<>>)
        => [i \in 1..Len(df_events) |->
               <<df_events[i].song_id, df_events[i].roman_numeral>>]
           = Concat([i \in 1..Len(call[1].raw_data) |->
                        [j \in 1..Len(ProgressionOf(call[1].raw_data[i])) |->
                            <<call[1].raw_data[i]["id"],
                              ProgressionOf(call[1].raw_data[i])[j]>>]])
    /\ (SingleUrlCalled /\ Truthy(call[1].path_str)
           /\ ~Contains(call[1].path_str[1], <<",">>))
        => EventNumerals = <<call[1].path_str[1]>>

\* process_data flattened "1,4,5,1" and then "1,5,6,4" into eight events.
C3_Witness ==
    /\ DataCalled
    /\ call[1].raw_data = <<ApiEntries[1], ApiEntries[6]>>
    /\ EventNumerals = <<<<"1">>, <<"4">>, <<"5">>, <<"1">>,
                         <<"1">>, <<"5">>, <<"6">>, <<"4">>>>

\* C4: no event has an empty or whitespace-only roman_numeral, and an empty
\* or missing progression string yields no event.
C4_EmptyTokensDiscarded ==
    /\ \A i \in 1..Len(df_events) : Strip(df_events[i].roman_numeral) # <<>>
    /\ (DataCalled /\ Len(call[1].raw_data) = 1
           /\ EntryGet(call[1].raw_data[1], "path", <<>>) = <<>>
           /\ EntryGet(call[1].raw_data[1], "queried_progression", <<>>) = <<>>)
        => df_events = <<>>
    /\ (SingleUrlCalled /\ ~Truthy(call[1].path_str)) => df_events = <<>>

\* C20: two events of the same song and section type carry the same
\* section_id, and a section_id is lower-case and holds no whitespace
\* character.
C20_SectionIdDeterministic ==
    \A i \in 1..Len(df_events) :
        /\ \A j \in 1..Len(df_events) :
               (df_events[i].song_id = df_events[j].song_id
                    /\ df_events[i].type = df_events[j].type)
                   => df_events[i].section_id = df_events[j].section_id
        /\ \A k \in 1..Len(df_events[i].section_id) :
               /\ df_events[i].section_id[k] \notin Whitespace
               /\ df_events[i].section_id[k] \notin DOMAIN LowerMap

\* The tokens the recorded call flattened, and the outcome of resolving each.
CallNumerals ==
    IF DataCalled
    THEN Concat([i \in 1..Len(call[1].raw_data) |->
                    EntryNumerals(call[1].raw_data[i])])
    ELSE IF Truthy(call[1].path_str)
    THEN StripNonEmpty(SplitProgression(call[1].path_str[1]))
    ELSE <<>>
CallOutcomes == Concat(call[1].outcomes)

\* C9: a token whose resolution raises gets absolute_root -1, every token of
\* the call still has its event, and every absolute_root is -1 or a pitch
\* class 0..11.
C9_TokenFailureIsolated ==
    call # None =>
        /\ EventNumerals = CallNumerals
        /\ Len(CallOutcomes) = Len(df_events)
        /\ \A i \in 1..Len(df_events) :
            /\ CallOutcomes[i].raised => df_events[i].absolute_root = -1
            /\ df_events[i].absolute_root \in {-1} \cup 0..11

\* The resolution raised for the middle token of a progression and returned a
\* root for the tokens before and after it.
C9_Witness ==
    /\ DataCalled
    /\ Len(df_events) = 3
    /\ CallOutcomes[1] = Returned(7) /\ df_events[1].absolute_root = 7
    /\ CallOutcomes[2] = Raised /\ df_events[2].absolute_root = -1
    /\ CallOutcomes[3] = Returned(2) /\ df_events[3].absolute_root = 2

\* C10: a digit token 1..7 in a known key has the root the library gives it,
\* a pitch class 0..11, whether or not the library is installed.
C10_RootsIndependentOfLibrary ==
    \A i \in 1..Len(df_events) :
        LET numeral == df_events[i].roman_numeral
            key == SongOf(df_songs, df_events[i].song_id).key_tonic
        IN  (numeral \in DOMAIN rn_map /\ Truthy(key) /\ PlainMajorKey(key[1]))
                => df_events[i].absolute_root
                       = (TonicPitchClass(key[1])
                             + DegreeOffset[Lower(rn_map[numeral])]) % 12

(***************************************************************************)
(* Properties of the tension scorer.                                       *)
(***************************************************************************)
\* The calls of the scorer the state records.
LoggedCalls == {tension_calls[i] : i \in DOMAIN tension_calls}

viidim7 == <<"v", "i", "i", "d", "i", "m", "7">>

\* C5: the token "viidim7" scores base("vii") + 1.5 (diminished) + 0.5
\* (seventh).
C5_ViiDim7Tension ==
    \A c \in LoggedCalls :
        c.chord_symbol = viidim7 =>
            c.tension_strain = tension_map[<<"v", "i", "i">>] + 15 + 5

\* The markers whose appending must not lower the tension.
RaisingMarkers == {<<"7">>, <<"d", "i", "m">>, <<"a", "u", "g">>}

\* The last call scored the symbol of the call before with marker mk appended.
MarkerAppended(mk) ==
    /\ Len(tension_calls) = 2
    /\ tension_calls[1].chord_symbol = tension_calls[2].chord_symbol \o mk

\* C6: for every symbol s of the table and every marker m among "7", "dim"
\* and "aug", the tension of s followed by m is at least the tension of s.
C6_TensionMonotoneInModifiers ==
    \A mk \in RaisingMarkers :
        (MarkerAppended(mk) /\ tension_calls[2].chord_symbol \in DOMAIN tension_map)
            => tension_calls[1].tension_strain >= tension_calls[2].tension_strain

\* The upper-case and lower-case roman numeral of every scale degree.
DegreeNumerals ==
    <<[upper |-> <<"I">>,           lower |-> <<"i">>],
      [upper |-> <<"I", "I">>,      lower |-> <<"i", "i">>],
      [upper |-> <<"I", "I", "I">>, lower |-> <<"i", "i", "i">>],
      [upper |-> <<"I", "V">>,      lower |-> <<"i", "v">>],
      [upper |-> <<"V">>,           lower |-> <<"v">>],
      [upper |-> <<"V", "I">>,      lower |-> <<"v", "i">>],
      [upper |-> <<"V", "I", "I">>, lower |-> <<"v", "i", "i">>]>>

\* The last two calls scored the lower-case numeral of degree d and then its
\* upper-case numeral.
ScoredBothCases(d) ==
    /\ Len(tension_calls) = 2
    /\ tension_calls[2].chord_symbol = DegreeNumerals[d].lower
    /\ tension_calls[1].chord_symbol = DegreeNumerals[d].upper

\* C7 as stated: at every degree the lower-case numeral scores strictly higher
\* than the upper-case numeral.
C7_LowerCaseHigherAtEveryDegree ==
    \A d \in DOMAIN DegreeNumerals :
        ScoredBothCases(d) =>
            tension_calls[2].tension_strain > tension_calls[1].tension_strain

\* C7, amended: the two cases of a degree differ by exactly 0.5; the lower-case
\* numeral is the higher one at degrees I, IV, V and VII, the upper-case
\* numeral at degrees II, III and VI.
C7_CaseOrderByDegree ==
    \A d \in DOMAIN DegreeNumerals :
        ScoredBothCases(d) =>
            IF d \in {1, 4, 5, 7}
            THEN tension_calls[2].tension_strain = tension_calls[1].tension_strain + 5
            ELSE tension_calls[1].tension_strain = tension_calls[2].tension_strain + 5

\* Degree VI has been scored in both cases.
C7_Witness == ScoredBothCases(6)

\* The sum of the modifiers that apply to a symbol.
ModifierSum(sym) ==
    (IF Contains(sym, <<"7">>) THEN 5 ELSE 0)
        + (IF Contains(sym, <<"d", "i", "m">>) THEN 15 ELSE 0)
        + (IF Contains(sym, <<"a", "u", "g">>) THEN 15 ELSE 0)

\* C8: every call returns a tension of at least 0, and a symbol whose stripped
\* form is not in the table scores exactly 2.0 plus every modifier that
\* applies.
C8_TotalNonNegativeDefault ==
    \A c \in LoggedCalls :
        /\ c.tension_strain \in Nat
        /\ ChordClean(c.chord_symbol) \notin DOMAIN tension_map
               => c.tension_strain = 20 + ModifierSum(c.chord_symbol)

\* A symbol outside the table that carries two stacking modifiers was scored.
C8_Witness ==
    \E c \in LoggedCalls :
        /\ ChordClean(c.chord_symbol) \notin DOMAIN tension_map
        /\ Contains(c.chord_symbol, <<"7">>)
        /\ Contains(c.chord_symbol, <<"d", "i", "m">>)
        /\ c.tension_strain = 40

MetadataKeys ==
    {"bpm", "key_tonic", "mode", "genre", "chord_complexity",
     "melodic_complexity", "trend_probability", "chord_melody_tension",
     "chord_progression_novelty", "chord_bass_melody", "type",
     "start_measure", "end_measure", "roman_numeral", "absolute_root",
     "inversion", "chord_progression", "song_title", "artist"}

\* C22: the keys of the record the aggregator returns are among the 19
\* names and no other; a name is left out only when its field is unknown,
\* which happens to song_title and artist alone, and these two are present
\* together or absent together.
C22_KeySetOfNineteen ==
    results # None =>
        LET keys == DOMAIN results[1]
        IN  /\ keys \subseteq MetadataKeys
            /\ MetadataKeys \ keys \subseteq {"song_title", "artist"}
            /\ "song_title" \in keys <=> "artist" \in keys
            /\ "song_title" \notin keys
                   => ~Truthy(ExtractTitleArtist(content)[1])

\* C22 witness: a record with all 19 keys, and a known title and artist.
C22_Witness ==
    /\ results # None
    /\ DOMAIN results[1] = MetadataKeys
    /\ Truthy(results[1]["song_title"])
    /\ Truthy(results[1]["artist"])

(***************************************************************************)
(* Properties of the filter.                                               *)
(***************************************************************************)
\* The complexity filters a call names.
ComplexityFilters(filters) ==
    {filter_key \in DOMAIN metrics_map : Has(filters, filter_key)}

\* C24: a song whose score is unknown is never treated as having score 0:
\* it does not pass a complexity filter on that score.
C24_UnknownScoreNotZero ==
    filtered # None /\ filtered[1].df_row # <<>> =>
        \A filter_key \in ComplexityFilters(filtered[1].filters) :
            filtered[1].df_row[1][metrics_map[filter_key]] = None
                => ~filtered[1].value

\* C25: when a key filter is supplied, a song is accepted only if its
\* key_tonic is known and equals the requested key, ignoring letter case.
C25_KeyFilterExact ==
    filtered # None /\ filtered[1].df_row # <<>>
        /\ Has(filtered[1].filters, "key") /\ filtered[1].value =>
            /\ filtered[1].df_row[1].key_tonic # None
            /\ Lower(filtered[1].df_row[1].key_tonic[1])
                   = Lower(Strip(filtered[1].filters["key"]))

(***************************************************************************)
(* Properties of the appender.                                             *)
(***************************************************************************)
\* The lines a step appends to the file at path.
Appended(path) ==
    SubSeq(Lines(files'[path]), Len(Lines(files[path])) + 1,
           Len(Lines(files'[path])))

\* C30: on a path that starts non-existent the header row is written by
\* the first call only and by no later call, and each call appends its rows
\* after all the lines written by earlier calls, without removing or
\* rewriting them.
C30_HeaderOnceRowsAppended ==
    [][\A path \in CsvPaths :
          /\ files[path] # None => files'[path] # None
          /\ Len(Lines(files'[path])) >= Len(Lines(files[path]))
          /\ SubSeq(Lines(files'[path]), 1, Len(Lines(files[path])))
                 = Lines(files[path])
          /\ \A k \in 1..Len(Appended(path)) :
                 Appended(path)[k].header <=> (files[path] = None /\ k = 1)
          /\ files[path] = None /\ files'[path] # None
                 => Appended(path) # <<>>]_vars

\* C30 witness: a file holds the header and the rows of a first call,
\* followed by the rows of a later call on another frame.
C30_Witness ==
    \E path \in CsvPaths :
        /\ Len(Lines(files[path])) >= 3
        /\ Lines(files[path])[1].header
        /\ \A k \in 2..Len(Lines(files[path])) : ~Lines(files[path])[k].header
        /\ \E k \in 3..Len(Lines(files[path])) :
               Lines(files[path])[k].row # Lines(files[path])[2].row

(***************************************************************************)
(* Properties of the search.                                               *)
(***************************************************************************)
\* The last turn of the loop printed "Failed to process".
FailedTurn ==
    /\ search # None
    /\ search' # None
    /\ Len(search'[1].printed) = Len(search[1].printed) + 1
    /\ search'[1].printed[Len(search'[1].printed)].line = "Failed to process"

\* C23: a failure of one candidate is isolated: each distinct candidate URL
\* is processed at most once, in a search that returned every candidate
\* was processed, those after a failed one included, and the turn of a
\* failed candidate leaves both CSV files as they were.
C23_SongFailureIsolated ==
    /\ [](search # None =>
             /\ \A j, k \in 1..Len(search[1].printed) :
                    j # k => search[1].printed[j].url # search[1].printed[k].url
             /\ search[1].returned =>
                    /\ Len(search[1].printed) = Len(search[1].candidate_urls)
                    /\ \A k \in 1..Len(search[1].candidate_urls) :
                           search[1].printed[k].url = search[1].candidate_urls[k])
    /\ [][FailedTurn => UNCHANGED files]_vars

(***************************************************************************)
(* Properties of the scorer's arguments.                                   *)
(***************************************************************************)
\* C26: the tension score depends on the chord symbol alone: two calls of
\* the scorer on the same symbol return the same value whatever key and
\* mode, known or not, each was given.
C26_TensionOfSymbolAlone ==
    (Len(tension_calls) = 2
        /\ tension_calls[1].chord_symbol = tension_calls[2].chord_symbol)
    => tension_calls[1].tension_strain = tension_calls[2].tension_strain

\* C26: the same symbol was scored in a known minor key and with key and
\* mode unknown, and the symbol is one whose score is not the default.
C26_Witness ==
    /\ Len(tension_calls) = 2
    /\ tension_calls[1].chord_symbol = <<"v", "i", "i">>
    /\ tension_calls[2].chord_symbol = <<"v", "i", "i">>
    /\ tension_calls[1].key_tonic = None
    /\ tension_calls[1].mode = None
    /\ tension_calls[2].key_tonic = Some(<<"C">>)
    /\ tension_calls[2].mode = Some(<<"Minor">>)
    /\ tension_calls[1].tension_strain = 45

\* C27: every digit token scores its own table entry: a call of the scorer
\* on a digit 1..7 returns the table's value for that digit, which is also
\* the score of the roman numeral the resolution maps the digit to.
C27_DigitScoresTableEntry ==
    \A c \in LoggedCalls :
        c.chord_symbol \in DOMAIN rn_map =>
            /\ c.tension_strain = tension_map[c.chord_symbol]
            /\ c.tension_strain =
                   CalculateSpiralArrayTension(rn_map[c.chord_symbol],
                                               c.key_tonic, c.mode)

(***************************************************************************)
(* Properties of the songs table.                                          *)
(***************************************************************************)
\* C28: when a song's key_tonic is unknown the flattener resolves no root:
\* the library is not called for any token of the song (no key, the
\* fallback 'C' included, is handed to it), every event of the song has
\* absolute_root -1, and every token of the call still has its event with
\* the tension score of its numeral.
C28_UnknownKeyResolvesNoRoot ==
    call # None =>
        /\ EventNumerals = CallNumerals
        /\ \A i \in 1..Len(df_events) :
               LET song == SongOf(df_songs, df_events[i].song_id)
               IN  song.key_tonic = None =>
                       /\ ~CallOutcomes[i].called
                       /\ df_events[i].absolute_root = -1
                       /\ df_events[i].tension_strain =
                              CalculateSpiralArrayTension(
                                  df_events[i].roman_numeral, None, song.mode)

\* With the library installed, process_data flattened "6,4" for a song whose
\* page names no key: two events, both without a root, scored 2.0 and 1.0.
C28_Witness ==
    /\ HAS_MUSIC21
    /\ DataCalled
    /\ call[1].raw_data = <<ApiEntries[3]>>
    /\ df_songs[1].key_tonic = None
    /\ [i \in 1..Len(df_events) |->
           <<df_events[i].absolute_root, df_events[i].tension_strain>>]
       = <<<<-1, 20>>, <<-1, 10>>>>

\* The ids of the entries of the recorded call of process_data, and the
\* first entry of an id.
EntryIds == {call[1].raw_data[i]["id"] : i \in 1..Len(call[1].raw_data)}
FirstEntry(id) ==
    call[1].raw_data[CHOOSE i \in 1..Len(call[1].raw_data) :
                        /\ call[1].raw_data[i]["id"] = id
                        /\ \A j \in 1..(i - 1) : call[1].raw_data[j]["id"] # id]

\* C29: process_data returns exactly one songs row per distinct id of the
\* raw entries, with the URL, title and artist of the first entry of the
\* id; the metadata is fetched once per row, for that entry's URL, and so
\* at most once per id; and the song_id of every event is the id of a row
\* of the songs table.
C29_OneRowPerSongId ==
    DataCalled =>
        /\ {df_songs[i].hooktheory_id : i \in 1..Len(df_songs)} = EntryIds
        /\ \A i, j \in 1..Len(df_songs) :
               df_songs[i].hooktheory_id = df_songs[j].hooktheory_id => i = j
        /\ \A i \in 1..Len(df_songs) :
               LET entry == FirstEntry(df_songs[i].hooktheory_id)
               IN  /\ df_songs[i].url = entry["url"]
                   /\ df_songs[i].title = Some(entry["song"])
                   /\ df_songs[i].artist = Some(entry["artist"])
        /\ call[1].fetched =
               [i \in 1..Len(df_songs) |->
                   [id |-> df_songs[i].hooktheory_id, url |-> df_songs[i].url]]
        /\ \A i, j \in 1..Len(call[1].fetched) :
               call[1].fetched[i].id = call[1].fetched[j].id => i = j
        /\ \A i \in 1..Len(df_events) :
               \E k \in 1..Len(df_songs) :
                   df_songs[k].hooktheory_id = df_events[i].song_id

\* process_data was called on two entries of the same song with different
\* URLs: one row, from the first entry's page in C major, one fetch, and
\* the events of both entries.
C29_Witness ==
    /\ DataCalled
    /\ call[1].raw_data = <<ApiEntries[1], ApiEntries[2]>>
    /\ Len(df_songs) = 1
    /\ df_songs[1].url = "/c"
    /\ df_songs[1].key_tonic = Some(<<"C">>)
    /\ call[1].fetched = <<[id |-> 1, url |-> "/c"]>>
    /\ Len(df_events) = 7

=============================================================================
